---- MODULE Spec2Model ----
(***************************************************************************)
(* A model of AIContentCrawler (src/ai_crawler.py): the crawl loop of      *)
(* crawl_for_content with its two work queues, the URL and content         *)
(* de-duplication helpers, the per-domain quota and the retry wrapper      *)
(* api_call_with_backoff.                                                  *)
(*                                                                         *)
(* Strings of the program are sequences of one-character strings, so that  *)
(* lower-casing, splitting and comparison are computed, not assumed.       *)
(***************************************************************************)
EXTENDS Integers, Sequences, FiniteSets, TLC

(***************************************************************************)
(* Characters and the str methods the program uses.                        *)
(***************************************************************************)

\* The characters of the model, in code-point order (Python compares
\* strings by code point).
ASCII ==
  << " ", "#", "&", "+", "-", ".", "/",
     "0", "1", "2", "3", "4", "5", "6", "7", "8", "9",
     ":", ";", "=", "?",
     "A", "B", "C", "D", "E", "F", "G", "H", "I", "J", "K", "L", "M",
     "N", "O", "P", "Q", "R", "S", "T", "U", "V", "W", "X", "Y", "Z",
     "[", "]", "_",
     "a", "b", "c", "d", "e", "f", "g", "h", "i", "j", "k", "l", "m",
     "n", "o", "p", "q", "r", "s", "t", "u", "v", "w", "x", "y", "z" >>

\* ord(c), counted along ASCII
code_point == [c \in { ASCII[i] : i \in DOMAIN ASCII } |->
                 CHOOSE i \in DOMAIN ASCII : ASCII[i] = c]

ord(c) == code_point[c]

isupper(c) == ord(c) >= ord("A") /\ ord(c) <= ord("Z")

isalpha(c) == isupper(c) \/ (ord(c) >= ord("a") /\ ord(c) <= ord("z"))

isdigit(c) == ord(c) >= ord("0") /\ ord(c) <= ord("9")

lower_char(c) == IF isupper(c) THEN ASCII[ord(c) + (ord("a") - ord("A"))] ELSE c

\* str.lower()
lower(s) == [i \in 1..Len(s) |-> lower_char(s[i])]

\* str.find(c), 1-based; 0 when c does not occur (Python: -1)
find(s, c) ==
  IF \E i \in 1..Len(s) : s[i] = c
  THEN CHOOSE i \in 1..Len(s) : s[i] = c /\ \A j \in 1..(i - 1) : s[j] # c
  ELSE 0

\* s[i:] with a 1-based i
from(s, i) == SubSeq(s, i, Len(s))

\* str.split(c, 1): the text before and after the first c
split1(s, c) ==
  IF find(s, c) = 0 THEN << s >>
  ELSE << SubSeq(s, 1, find(s, c) - 1), from(s, find(s, c) + 1) >>

\* str.split(c)
RECURSIVE split(_, _)
split(s, c) ==
  IF find(s, c) = 0 THEN << s >>
  ELSE << SubSeq(s, 1, find(s, c) - 1) >> \o split(from(s, find(s, c) + 1), c)

\* str.rstrip(c)
RECURSIVE rstrip(_, _)
rstrip(s, c) ==
  IF s # << >> /\ s[Len(s)] = c THEN rstrip(SubSeq(s, 1, Len(s) - 1), c) ELSE s

\* sep.join(parts)
RECURSIVE join(_, _)
join(parts, sep) ==
  IF parts = << >> THEN << >>
  ELSE IF Len(parts) = 1 THEN parts[1]
  ELSE parts[1] \o sep \o join(Tail(parts), sep)

\* s < t, the order of Python strings
RECURSIVE str_less(_, _)
str_less(s, t) ==
  IF t = << >> THEN FALSE
  ELSE IF s = << >> THEN TRUE
  ELSE IF s[1] # t[1] THEN ord(s[1]) < ord(t[1])
  ELSE str_less(Tail(s), Tail(t))

\* sub in s
contains(s, sub) ==
  \E i \in 0..(Len(s) - Len(sub)) : SubSeq(s, i + 1, i + Len(sub)) = sub

(***************************************************************************)
(* urllib.parse.urlparse, as far as normalize_url and check_domain_quota   *)
(* read its result.                                                        *)
(***************************************************************************)

\* the characters a scheme may hold (urllib.parse.scheme_chars)
scheme_char(c) == isalpha(c) \/ isdigit(c) \/ c \in {"+", "-", "."}

\* the first of "/", "?", "#" at or after position i, else Len(s) + 1
netloc_end(s, i) ==
  IF \E j \in i..Len(s) : s[j] \in {"/", "?", "#"}
  THEN CHOOSE j \in i..Len(s) :
         s[j] \in {"/", "?", "#"} /\ \A k \in i..(j - 1) : s[k] \notin {"/", "?", "#"}
  ELSE Len(s) + 1

\* the last "/" of s, 0 when there is none (str.rfind)
rfind_slash(s) ==
  IF \E i \in 1..Len(s) : s[i] = "/"
  THEN CHOOSE i \in 1..Len(s) : s[i] = "/" /\ \A j \in (i + 1)..Len(s) : s[j] # "/"
  ELSE 0

\* a scheme ends at position i of url (the first ":")
has_scheme(url, i) ==
  i > 1 /\ isalpha(url[1]) /\ \A j \in 1..(i - 1) : scheme_char(url[j])

\* the text after the scheme begins with "//"
has_netloc(url) == Len(url) >= 2 /\ url[1] = "/" /\ url[2] = "/"

\* urlparse splits ";params" off the last path segment; semi is the place
\* of the first ";" in that segment
path_without_params(url, semi) ==
  IF semi = 0 THEN url ELSE SubSeq(url, 1, rfind_slash(url) + semi - 1)

\* url: the text left after scheme, netloc, query and fragment were taken
parse_path(scheme, netloc, url, query) ==
  [ scheme |-> scheme, netloc |-> netloc,
    path |-> path_without_params(url, find(from(url, rfind_slash(url) + 1), ";")),
    query |-> query ]

\* url: the text left after scheme, netloc and fragment were taken
parse_query(scheme, netloc, url) ==
  parse_path(scheme, netloc, split1(url, "?")[1],
             IF find(url, "?") = 0 THEN << >> ELSE split1(url, "?")[2])

\* url: the text after the scheme
parse_netloc(scheme, url) ==
  IF has_netloc(url)
  THEN parse_query(scheme, SubSeq(url, 3, netloc_end(url, 3) - 1),
                   split1(from(url, netloc_end(url, 3)), "#")[1])
  ELSE parse_query(scheme, << >>, split1(url, "#")[1])

\* i: the place of the first ":" of url
parse_scheme(url, i) ==
  IF has_scheme(url, i)
  THEN parse_netloc(lower(SubSeq(url, 1, i - 1)), from(url, i + 1))
  ELSE parse_netloc(<< >>, url)

urlparse(url) == parse_scheme(url, find(url, ":"))

(***************************************************************************)
(* normalize_url                                                           *)
(***************************************************************************)

\* the parameter names normalize_url drops
tracking_params ==
  { << "u", "t", "m", "_", "s", "o", "u", "r", "c", "e" >>,
    << "u", "t", "m", "_", "m", "e", "d", "i", "u", "m" >>,
    << "u", "t", "m", "_", "c", "a", "m", "p", "a", "i", "g", "n" >>,
    << "r", "e", "f" >>,
    << "s", "o", "u", "r", "c", "e" >>,
    << "f", "b", "c", "l", "i", "d" >>,
    << "g", "c", "l", "i", "d" >> }

\* query_params[key] = value on a dict kept as a sequence of <<key, value>>
\* in insertion order: an existing key keeps its place and takes the value
dict_set(d, key, value) ==
  IF \E i \in DOMAIN d : d[i][1] = key
  THEN [i \in DOMAIN d |-> IF d[i][1] = key THEN << key, value >> ELSE d[i]]
  ELSE Append(d, << key, value >>)

\* the loop over parsed_url.query.split('&')
RECURSIVE collect_params(_, _)
collect_params(params, d) ==
  IF params = << >> THEN d
  ELSE LET param == Head(params)
           kv == split1(param, "=")
       IN IF find(param, "=") # 0 /\ lower(kv[1]) \notin tracking_params
          THEN collect_params(Tail(params), dict_set(d, kv[1], kv[2]))
          ELSE collect_params(Tail(params), d)

\* sorted(query_params.items()): by key (the keys of a dict are distinct)
RECURSIVE insert_sorted(_, _)
insert_sorted(d, item) ==
  IF d = << >> THEN << item >>
  ELSE IF str_less(item[1], d[1][1]) THEN << item >> \o d
  ELSE << d[1] >> \o insert_sorted(Tail(d), item)

\* the items left in insertion order
unsorted_items(d) == d

RECURSIVE sorted_items(_)
sorted_items(d) ==
  IF d = << >> THEN << >> ELSE insert_sorted(sorted_items(Tail(d)), Head(d))

\* lines 810-818: the parameters kept, in insertion order
query_params_of(query) ==
  IF query # << >> THEN collect_params(split(query, "&"), << >>) ELSE << >>

\* line 821: "&".join of "k=v" over the sorted items
query_string_of(items) ==
  join([i \in DOMAIN items |-> items[i][1] \o << "=" >> \o items[i][2]], << "&" >>)

\* lines 825-828
with_query_string(normalized_url, query_string) ==
  IF query_string # << >>
  THEN normalized_url \o << "?" >> \o query_string
  ELSE normalized_url

\* lines 803-828, from the parsed URL on
normalize_parsed(parsed_url) ==
  LET netloc == lower(parsed_url.netloc)
      path == rstrip(lower(parsed_url.path), "/")
  IN with_query_string(parsed_url.scheme \o << ":", "/", "/" >> \o netloc \o path,
                       query_string_of(sorted_items(query_params_of(parsed_url.query))))

normalize_url(url) == normalize_parsed(urlparse(url))

\* urlparse(url).netloc.lower(), the key of domain_counts
domain_of(url) == lower(urlparse(url).netloc)

(***************************************************************************)
(* The URLs the collaborators (search, link suggestion) may return.  The   *)
(* state holds a URL as its position in URL_TEXT: the texts are pairwise   *)
(* distinct, so two URLs are the same string iff their positions are equal.*)
(***************************************************************************)

HTTP == << "h", "t", "t", "p", ":", "/", "/" >>

\* http://a.com/p?ref=1
U1 == HTTP \o << "a", ".", "c", "o", "m", "/", "p", "?", "r", "e", "f", "=", "1" >>

\* http://a.com/p/?ref=2
U2 == HTTP \o << "a", ".", "c", "o", "m", "/", "p", "/", "?", "r", "e", "f", "=", "2" >>

\* http://A.com/q
U3 == HTTP \o << "A", ".", "c", "o", "m", "/", "q" >>

\* http://dev.to/x?b=2&a=1
U4 == HTTP \o << "d", "e", "v", ".", "t", "o", "/", "x", "?", "b", "=", "2", "&", "a", "=", "1" >>

URL_TEXT == << U1, U2, U3, U4 >>

URLS == DOMAIN URL_TEXT

\* normalize_url and the domain of every URL of the model, computed once
normalized_of == [url \in URLS |-> normalize_url(URL_TEXT[url])]

domain_table == [url \in URLS |-> domain_of(URL_TEXT[url])]

(***************************************************************************)
(* Content records, fingerprints and the similarity test.                  *)
(***************************************************************************)

SP == << " " >>

\* hash(text) % 10000000.  Python fixes the hash function of str once per
\* process; this is one such function (equal texts have equal hashes).
RECURSIVE py_hash(_, _)
py_hash(text, h) ==
  IF text = << >> THEN h
  ELSE py_hash(Tail(text), (h * 31 + ord(Head(text))) % 10000000)

\* text[:n]
prefix(text, n) == SubSeq(text, 1, IF Len(text) < n THEN Len(text) ELSE n)

get_content_fingerprint(content_data) ==
  LET title == lower(content_data.title)
      summary == lower(content_data.summary)
      key_points == lower(content_data.key_points)
  IN [ title |-> title,
       summary_length |-> Len(summary),
       summary_start |-> IF Len(summary) > 100 THEN prefix(summary, 100) ELSE summary,
       key_points_hash |-> py_hash(key_points, 0) ]

\* set(text.split()): the words of a text
RECURSIVE word_set(_)
word_set(text) ==
  IF text = << >> THEN {}
  ELSE LET parts == split1(text, " ")
           rest == IF Len(parts) = 2 THEN word_set(parts[2]) ELSE {}
       IN IF parts[1] = << >> THEN rest ELSE {parts[1]} \cup rest

\* calculate_text_similarity(text1, text2) >= 0.7
similarity_at_least_threshold(text1, text2) ==
  LET words1 == word_set(text1)
      words2 == word_set(text2)
  IN IF words1 = {} \/ words2 = {} THEN FALSE
     ELSE 10 * Cardinality(words1 \cap words2) >= 7 * Cardinality(words1 \cup words2)

\* calculate_text_similarity(text1, text2) > similarity_threshold (0.7),
\* with the quotient intersection / union kept as a pair of integers
similarity_above_threshold(text1, text2) ==
  LET words1 == word_set(text1)
      words2 == word_set(text2)
      intersection == Cardinality(words1 \cap words2)
      union == Cardinality(words1 \cup words2)
  IN IF words1 = {} \/ words2 = {} THEN FALSE
     ELSE 10 * intersection > 7 * union

\* the pass of the loop with the containment test of lines 888-891 made on
\* titles of any length
similar_to_any_containment(existing_fingerprint, new_fingerprint) ==
  \/ /\ existing_fingerprint.title # << >>
     /\ new_fingerprint.title # << >>
     /\ \/ existing_fingerprint.title = new_fingerprint.title
        \/ contains(new_fingerprint.title, existing_fingerprint.title)
        \/ contains(existing_fingerprint.title, new_fingerprint.title)
  \/ /\ Len(existing_fingerprint.summary_start) > 50
     /\ Len(new_fingerprint.summary_start) > 50
     /\ similarity_above_threshold(existing_fingerprint.summary_start,
                                   new_fingerprint.summary_start)
  \/ existing_fingerprint.key_points_hash = new_fingerprint.key_points_hash

\* the pass of the loop with the test of line 912 made only on records
\* that have key points
similar_to_guarded(existing_fingerprint, new_fingerprint) ==
  \/ /\ existing_fingerprint.title # << >>
     /\ new_fingerprint.title # << >>
     /\ \/ existing_fingerprint.title = new_fingerprint.title
        \/ /\ Len(existing_fingerprint.title) > 20
           /\ Len(new_fingerprint.title) > 20
           /\ \/ contains(new_fingerprint.title, existing_fingerprint.title)
              \/ contains(existing_fingerprint.title, new_fingerprint.title)
  \/ /\ existing_fingerprint.summary_start # << >>
     /\ new_fingerprint.summary_start # << >>
     /\ Len(existing_fingerprint.summary_start) > 50
     /\ Len(new_fingerprint.summary_start) > 50
     /\ similarity_above_threshold(existing_fingerprint.summary_start,
                                   new_fingerprint.summary_start)
  \/ /\ existing_fingerprint.key_points_hash = new_fingerprint.key_points_hash
     /\ new_fingerprint.key_points_hash # py_hash(<< "[", "]" >>, 0)

\* one pass of the loop of is_similar_content over an existing fingerprint
similar_to(existing_fingerprint, new_fingerprint) ==
  \/ /\ existing_fingerprint.title # << >>
     /\ new_fingerprint.title # << >>
     /\ \/ existing_fingerprint.title = new_fingerprint.title
        \/ /\ Len(existing_fingerprint.title) > 20
           /\ Len(new_fingerprint.title) > 20
           /\ \/ contains(new_fingerprint.title, existing_fingerprint.title)
              \/ contains(existing_fingerprint.title, new_fingerprint.title)
  \/ /\ existing_fingerprint.summary_start # << >>
     /\ new_fingerprint.summary_start # << >>
     /\ Len(existing_fingerprint.summary_start) > 50
     /\ Len(new_fingerprint.summary_start) > 50
     /\ similarity_above_threshold(existing_fingerprint.summary_start,
                                   new_fingerprint.summary_start)
  \/ existing_fingerprint.key_points_hash = new_fingerprint.key_points_hash

is_similar_content(fingerprints, new_fingerprint) ==
  \E i \in DOMAIN fingerprints : similar_to(fingerprints[i], new_fingerprint)

\* the words of the texts of the model
WORD ==
  [
    Intro |-> << "I", "n", "t", "r", "o" >>,
    to |-> << "t", "o" >>,
    AI |-> << "A", "I" >>,
    Complete |-> << "C", "o", "m", "p", "l", "e", "t", "e" >>,
    Unknown |-> << "U", "n", "k", "n", "o", "w", "n" >>,
    latest |-> << "l", "a", "t", "e", "s", "t" >>,
    recent |-> << "r", "e", "c", "e", "n", "t" >>,
    developments |-> << "d", "e", "v", "e", "l", "o", "p", "m", "e", "n", "t", "s" >>,
    research |-> << "r", "e", "s", "e", "a", "r", "c", "h" >>,
    updated |-> << "u", "p", "d", "a", "t", "e", "d" >>,
    key |-> << "k", "e", "y" >>,
    insights |-> << "i", "n", "s", "i", "g", "h", "t", "s" >>,
    important |-> << "i", "m", "p", "o", "r", "t", "a", "n", "t" >>,
    information |-> << "i", "n", "f", "o", "r", "m", "a", "t", "i", "o", "n" >>,
    about |-> << "a", "b", "o", "u", "t" >>,
    complete |-> << "c", "o", "m", "p", "l", "e", "t", "e" >>,
    guide |-> << "g", "u", "i", "d", "e" >>,
    what |-> << "w", "h", "a", "t" >>,
    you |-> << "y", "o", "u" >>,
    need |-> << "n", "e", "e", "d" >>,
    know |-> << "k", "n", "o", "w" >>,
    overview |-> << "o", "v", "e", "r", "v", "i", "e", "w" >>,
    introduction |-> << "i", "n", "t", "r", "o", "d", "u", "c", "t", "i", "o", "n" >>,
    basics |-> << "b", "a", "s", "i", "c", "s" >>,
    of |-> << "o", "f" >>,
    for |-> << "f", "o", "r" >>,
    beginners |-> << "b", "e", "g", "i", "n", "n", "e", "r", "s" >> ]

\* "Intro to AI"
T_INTRO == WORD.Intro \o SP \o WORD.to \o SP \o WORD.AI

\* "A Complete Intro to AI"
T_COMPLETE == << "A" >> \o SP \o WORD.Complete \o SP \o T_INTRO

\* The records the extractor may return.  key_points holds the text
\* str(key_points) of the record's list of key points.
D_INTRO ==
  [ title |-> T_INTRO, summary |-> << "s", "1" >>,
    key_points |-> << "[", "k", "1", "]" >>,
    date_published |-> << "2", "0", "2", "4" >>, relevance_score |-> 8 ]

D_COMPLETE ==
  [ title |-> T_COMPLETE, summary |-> << "s", "2" >>,
    key_points |-> << "[", "k", "2", "]" >>,
    date_published |-> WORD.Unknown, relevance_score |-> 9 ]

\* the best-effort record of extract_content_data when the response is not
\* the expected JSON object: the page title, no summary, no key points
D_RAW ==
  [ title |-> WORD.Unknown, summary |-> << >>,
    key_points |-> << "[", "]" >>,
    date_published |-> WORD.Unknown, relevance_score |-> 0 ]

CONTENTS == { D_INTRO, D_RAW }

\* the fingerprint of every record of the model, computed once
fingerprint_of == [content_data \in CONTENTS |-> get_content_fingerprint(content_data)]

(***************************************************************************)
(* Search queries.                                                         *)
(***************************************************************************)

\* the words of a phrase joined by single spaces
phrase(words) == join(words, SP)

\* time.strftime("%Y") at the start of the run
CURRENT_YEAR == << "2", "0", "2", "6" >>

\* the topics the user may enter at the prompt
TOPICS == { WORD.AI }

\* the list of line 1101 with the two "recent" variants in the other order
seed_queries_reordered(topic) ==
  << topic,
     phrase(<< WORD.latest, topic, CURRENT_YEAR >>),
     phrase(<< topic, WORD.recent, WORD.research >>),
     phrase(<< topic, WORD.recent, WORD.developments >>),
     phrase(<< topic, WORD.updated, CURRENT_YEAR >>) >>

\* search_queries at line 1101: the topic and its four variants
seed_queries(topic) ==
  << topic,
     phrase(<< WORD.latest, topic, CURRENT_YEAR >>),
     phrase(<< topic, WORD.recent, WORD.developments >>),
     phrase(<< topic, WORD.recent, WORD.research >>),
     phrase(<< topic, WORD.updated, CURRENT_YEAR >>) >>

\* new_queries at line 1250
deepen_queries(topic) ==
  << phrase(<< topic, WORD.key, WORD.insights >>),
     phrase(<< WORD.important, WORD.information, WORD.about, topic >>),
     phrase(<< topic, WORD.complete, WORD.guide >>),
     phrase(<< WORD.what, WORD.you, WORD.need, WORD.to, WORD.know, WORD.about, topic >>) >>

\* broader_queries at line 1264
broaden_queries(topic) ==
  << phrase(<< topic, WORD.overview >>),
     phrase(<< WORD.introduction, WORD.to, topic >>),
     phrase(<< WORD.basics, WORD.of, topic >>),
     phrase(<< topic, WORD.for, WORD.beginners >>) >>

\* The related search terms the model may suggest: a text equal to a seed,
\* a text equal to a "broaden" template and a text equal to a "deepen"
\* template.
related_terms(topic) ==
  { phrase(<< topic, WORD.recent, WORD.research >>),
    phrase(<< topic, WORD.overview >>),
    phrase(<< topic, WORD.key, WORD.insights >>) }

\* The state holds a query as its position in QUERY_TEXT, the list of all
\* the distinct query texts of the model: two queries are the same string
\* iff their positions are equal.
range(list) == { list[i] : i \in DOMAIN list }

RECURSIVE set_to_seq(_)
set_to_seq(S) ==
  IF S = {} THEN << >>
  ELSE LET x == CHOOSE x \in S : TRUE IN << x >> \o set_to_seq(S \ {x})

QUERY_TEXT ==
  set_to_seq(UNION { range(seed_queries(topic)) \cup range(deepen_queries(topic))
                       \cup range(broaden_queries(topic)) \cup related_terms(topic) :
                     topic \in TOPICS })

query_id(text) == CHOOSE i \in DOMAIN QUERY_TEXT : QUERY_TEXT[i] = text

query_ids(texts) == [i \in DOMAIN texts |-> query_id(texts[i])]

\* the queries of every topic of the model, computed once
SEEDS == [topic \in TOPICS |-> query_ids(seed_queries(topic))]

DEEPEN == [topic \in TOPICS |-> query_ids(deepen_queries(topic))]

BROADEN == [topic \in TOPICS |-> query_ids(broaden_queries(topic))]

TERMS == [topic \in TOPICS |-> { query_id(text) : text \in related_terms(topic) }]

(***************************************************************************)
(* Bounds of the model.                                                    *)
(***************************************************************************)

\* max_pages ranges over 0..MaxPages, max_content over 0..MaxContent
MaxPages == 2
MaxContent == 2

\* max_per_domain (the prompt's answer) ranges over 0..MaxPerDomain
MaxPerDomain == 1

\* the longest list of URLs a search returns
MaxResults == 1

\* the longest list of links find_more_links_on_page suggests
MaxLinks == 2

\* the longest list of related search terms
MaxTerms == 1

\* all sequences over S of length at most n
SeqsUpTo(S, n) == UNION { [1..k -> S] : k \in 0..n }

(***************************************************************************)
(* The crawler's state.                                                    *)
(***************************************************************************)

VARIABLES
  pc,                   \* "loop": at the while test of line 1120; "done": after it;
                        \* "aborted": an exception left crawl_for_content
  user_query,           \* self.user_query
  max_per_domain,       \* self.max_per_domain
  max_content,          \* the parameters of crawl_for_content
  max_pages,
  stats,                \* the counters of the run
  search_queries,       \* the history list of seed and template queries
  search_queue,         \* pending search queries
  content_url_queue,    \* pending candidate URLs
  saved_content,        \* the summaries of the persisted records
  normalized_urls,      \* normalized forms of the dispatched URLs
  visited_urls,         \* self.visited_urls: the dispatched URLs as given
  domain_counts,        \* self.domain_counts
  content_fingerprints, \* self.content_fingerprints
  dispatched,           \* history: the URLs dispatched, in order, with the
                        \* outcome of their fetch
  last,                 \* history: what the latest loop iteration did
  searched,             \* history: the queries popped and searched, in order
  quota_rejected,       \* history: the URLs the domain quota rejected
  backoff_time,         \* self.backoff_time
  backoff,              \* the locals of api_call_with_backoff
  retries,
  api_pc,               \* "idle": no call under way; "trying": at the while test
                        \* of line 155; "returned": line 161; "raised": line 181
  events,               \* history: the calls, sleeps and successes of
                        \* api_call_with_backoff, in order
  clock,                \* time.time(), in whole seconds since the crawler was made
  last_api_call,        \* self.last_api_call
  last_search_api_call, \* self.last_search_api_call
  requests,             \* history: the requests sent to the model and to the
                        \* search API, in order, with the time each began
  helper_call           \* history: the latest direct call of a helper
                        \* (is_similar_content, normalize_url), with its
                        \* arguments and its result

\* the clock and what the pacing keeps
pace_vars == << clock, last_api_call, last_search_api_call, requests >>

\* the retry wrapper's variables, with the clock its sleeps move
api_vars == << backoff_time, backoff, retries, api_pc, events, pace_vars >>

vars ==
  << pc, user_query, max_per_domain, max_content, max_pages, stats,
     search_queries, search_queue, content_url_queue, saved_content,
     normalized_urls, visited_urls, domain_counts, content_fingerprints,
     dispatched, last, searched, quota_rejected, api_vars, helper_call >>

\* self.backoff_time after __init__
initial_backoff_time == 5

\* self.max_backoff
max_backoff == 60

\* self.min_api_interval
min_api_interval == 2

\* self.min_search_api_interval
min_search_api_interval == 1

\* time.time() when the crawler is made: the timestamps of lines 81 and 87
\* are 0, an instant long past
StartClock == 10

\* self.content_domains
content_domains ==
  { << "m", "e", "d", "i", "u", "m", ".", "c", "o", "m" >>,
    << "d", "e", "v", ".", "t", "o" >>,
    << "t", "o", "w", "a", "r", "d", "s", "d", "a", "t", "a", "s", "c", "i", "e", "n", "c", "e", ".", "c", "o", "m" >>,
    << "h", "a", "c", "k", "e", "r", "n", "o", "o", "n", ".", "c", "o", "m" >>,
    << "f", "r", "e", "e", "c", "o", "d", "e", "c", "a", "m", "p", ".", "o", "r", "g" >>,
    << "i", "n", "f", "o", "w", "o", "r", "l", "d", ".", "c", "o", "m" >>,
    << "d", "z", "o", "n", "e", ".", "c", "o", "m" >>,
    << "s", "t", "a", "c", "k", "o", "v", "e", "r", "f", "l", "o", "w", ".", "c", "o", "m" >>,
    << "s", "t", "a", "c", "k", "e", "x", "c", "h", "a", "n", "g", "e", ".", "c", "o", "m" >>,
    << "r", "e", "d", "d", "i", "t", ".", "c", "o", "m" >>,
    << "h", "a", "b", "r", ".", "c", "o", "m" >>,
    << "l", "e", "v", "e", "l", "u", "p", ".", "g", "i", "t", "c", "o", "n", "n", "e", "c", "t", "e", "d", ".", "c", "o", "m" >>,
    << "b", "l", "o", "g", ".", "l", "o", "g", "r", "o", "c", "k", "e", "t", ".", "c", "o", "m" >>,
    << "b", "l", "o", "g", ".", "b", "i", "t", "s", "r", "c", ".", "i", "o" >>,
    << "t", "d", "s", ".", "a", "i" >>,
    << "h", "a", "s", "h", "n", "o", "d", "e", ".", "c", "o", "m" >>,
    << "t", "e", "c", "h", "c", "r", "u", "n", "c", "h", ".", "c", "o", "m" >>,
    << "w", "i", "r", "e", "d", ".", "c", "o", "m" >>,
    << "v", "e", "n", "t", "u", "r", "e", "b", "e", "a", "t", ".", "c", "o", "m" >>,
    << "t", "h", "e", "n", "e", "x", "t", "w", "e", "b", ".", "c", "o", "m" >>,
    << "z", "d", "n", "e", "t", ".", "c", "o", "m" >>,
    << "c", "n", "e", "t", ".", "c", "o", "m" >>,
    << "t", "h", "e", "v", "e", "r", "g", "e", ".", "c", "o", "m" >>,
    << "e", "n", "g", "a", "d", "g", "e", "t", ".", "c", "o", "m" >>,
    << "a", "r", "s", "t", "e", "c", "h", "n", "i", "c", "a", ".", "c", "o", "m" >>,
    << "m", "a", "s", "h", "a", "b", "l", "e", ".", "c", "o", "m" >>,
    << "v", "o", "x", ".", "c", "o", "m" >>,
    << "f", "o", "r", "b", "e", "s", ".", "c", "o", "m" >>,
    << "b", "u", "s", "i", "n", "e", "s", "s", "i", "n", "s", "i", "d", "e", "r", ".", "c", "o", "m" >>,
    << "n", "y", "t", "i", "m", "e", "s", ".", "c", "o", "m" >>,
    << "w", "s", "j", ".", "c", "o", "m" >>,
    << "b", "b", "c", ".", "c", "o", "m" >>,
    << "r", "e", "u", "t", "e", "r", "s", ".", "c", "o", "m" >>,
    << "c", "n", "b", "c", ".", "c", "o", "m" >>,
    << "b", "l", "o", "o", "m", "b", "e", "r", "g", ".", "c", "o", "m" >>,
    << "f", "t", ".", "c", "o", "m" >> }

\* is_likely_content_domain(url)
is_likely_content_domain(url) ==
  \E content_domain \in content_domains : contains(urlparse(url).netloc, content_domain)

likely_content_domain == [url \in URLS |-> is_likely_content_domain(URL_TEXT[url])]

zero_stats ==
  [ search_queries_used |-> 0, pages_visited |-> 0, content_found |-> 0,
    errors |-> 0, duplicates_skipped |-> 0, similar_content_skipped |-> 0,
    domain_quota_exceeded |-> 0 ]

\* stats[counter] += 1
Inc(st, counter) == [st EXCEPT ![counter] = @ + 1]

\* self.domain_counts.get(domain, 0)
count_of(counts, domain) == IF domain \in DOMAIN counts THEN counts[domain] ELSE 0

\* self.domain_counts[domain] = self.domain_counts.get(domain, 0) + 1
count_up(counts, domain) ==
  [d \in DOMAIN counts \cup {domain} |->
     IF d = domain THEN count_of(counts, domain) + 1 ELSE counts[d]]

\* x in a list
in_list(x, list) == \E i \in DOMAIN list : list[i] = x

\* the state after __init__, the prompt and lines 1086-1117
Init ==
  /\ pc = "loop"
  /\ user_query \in TOPICS
  /\ max_per_domain \in 0..MaxPerDomain
  /\ max_content \in 0..MaxContent
  /\ max_pages \in 0..MaxPages
  /\ stats = zero_stats
  /\ search_queries = SEEDS[user_query]
  /\ search_queue = SEEDS[user_query]
  /\ content_url_queue = << >>
  /\ saved_content = << >>
  /\ normalized_urls = {}
  /\ visited_urls = {}
  /\ domain_counts = [d \in {} |-> 0]
  /\ content_fingerprints = << >>
  /\ dispatched = << >>
  /\ last = [branch |-> "none", item |-> 0, expansion |-> FALSE, raised |-> {}]
  /\ searched = << >>
  /\ quota_rejected = {}
  /\ backoff_time = initial_backoff_time
  /\ helper_call = [fn |-> "none"]
  /\ backoff = 0
  /\ retries = 0
  /\ api_pc = "idle"
  /\ events = << >>
  /\ clock = StartClock
  /\ last_api_call = 0
  /\ last_search_api_call = 0
  /\ requests = << >>

(***************************************************************************)
(* The collaborators' answers and the helpers that wrap them.  A call that *)
(* goes through api_call_with_backoff either returns the model's answer or *)
(* raises once its retries are used up (line 181).                         *)
(***************************************************************************)

Returned(v) == [raised |-> FALSE, none |-> FALSE, value |-> v]
ReturnedNone == [raised |-> FALSE, none |-> TRUE]
Raised == [raised |-> TRUE, none |-> FALSE]

\* the lists a search may find: up to MaxResults URLs, or one URL twice
URL_LISTS == SeqsUpTo(URLS, MaxResults) \cup { << url, url >> : url \in URLS }

\* The answers of the ranking call to a list of offered links: the links it
\* keeps, in the order it gives them.  (An answer naming other URLs hands the
\* loop a list that a search can also return as it stands.)
RANKINGS ==
  [links \in URL_LISTS |->
     { r \in SeqsUpTo({ links[i] : i \in DOMAIN links }, Len(links)) :
         \A i, j \in DOMAIN r : i # j => r[i] # r[j] }]

RankingResponses(links) ==
  IF links = << >> THEN { [raised |-> FALSE, none |-> FALSE, value |-> << >>] }
  ELSE { [raised |-> TRUE, none |-> FALSE] }
         \cup { [raised |-> FALSE, none |-> FALSE, value |-> r] : r \in RANKINGS[links] }

\* the links a page may carry: the URLs of the host of U1
LINK_URLS == { url \in URLS : domain_table[url] = domain_table[1] }

LINK_LISTS == SeqsUpTo(LINK_URLS, MaxLinks)

ClassifyResponses == { Raised, Returned("yes"), Returned("no") }
ExtractResponses == { Raised } \cup { Returned(d) : d \in CONTENTS }
TERM_LISTS == [topic \in TOPICS |-> SeqsUpTo(TERMS[topic], MaxTerms)]

TermsResponses == { Raised } \cup { Returned(t) : t \in TERM_LISTS[user_query] }
LinksResponses == { Raised } \cup { Returned(l) : l \in LINK_LISTS }

\* is_relevant_content without its except clause
is_relevant_content_uncaught(response) ==
  IF response.raised THEN Raised ELSE Returned(response.value = "yes")

\* is_relevant_content: the verdict, False when the call raised (line 606)
is_relevant_content(response) ==
  IF response.raised THEN Returned(FALSE) ELSE Returned(response.value = "yes")

\* extract_content_data: the record, None when the call raised (line 718)
extract_content_data(response) ==
  IF response.raised THEN ReturnedNone ELSE Returned(response.value)

\* extract_related_search_terms: the list, [] when the call raised (line 784)
extract_related_search_terms(response) ==
  IF response.raised THEN Returned(<< >>) ELSE Returned(response.value)

\* find_more_links_on_page: the list, [] when the call raised (line 1068)
find_more_links_on_page(response) ==
  IF response.raised THEN Returned(<< >>) ELSE Returned(response.value)

\* [link for link in links if is_likely_content_domain(link)]
RECURSIVE content_domain_links(_)
content_domain_links(links) ==
  IF links = << >> THEN << >>
  ELSE IF likely_content_domain[Head(links)]
       THEN << Head(links) >> \o content_domain_links(Tail(links))
       ELSE content_domain_links(Tail(links))

\* search_for_content.  google: the result of google_custom_search ([] when
\* it failed); scraped: the links of the fallback result page ([] when its
\* fetch failed); ranking: the answer of the model's ranking call
search_for_content(google, scraped, ranking) ==
  IF google # << >>
  THEN IF ranking.raised THEN Returned(google) ELSE Returned(ranking.value)
  ELSE IF scraped = << >> THEN Returned(<< >>)
  ELSE IF ranking.raised THEN Returned(content_domain_links(prefix(scraped, 10)))
  ELSE Returned(ranking.value)

(***************************************************************************)
(* The steps of the loop body.                                             *)
(***************************************************************************)

\* the while test with "<=" for "<"
loop_condition_inclusive ==
  /\ stats.pages_visited <= max_pages
  /\ stats.content_found <= max_content
  /\ (search_queue # << >> \/ content_url_queue # << >>)

\* the while test without its test of the queues
loop_condition_ignoring_queues ==
  /\ stats.pages_visited < max_pages
  /\ stats.content_found < max_content

\* the while test of line 1120
loop_condition ==
  /\ stats.pages_visited < max_pages
  /\ stats.content_found < max_content
  /\ (search_queue # << >> \/ content_url_queue # << >>)

\* queue.pop(): the last item is taken
pop_last(queue) == Len(queue)

\* queue.pop(0): the position of the item taken
pop_index(queue) == 1

remove_at(list, i) == SubSeq(list, 1, i - 1) \o SubSeq(list, i + 1, Len(list))

\* the test of line 1130 on the URL as given
is_duplicate_as_given(url) == url \in visited_urls

\* lines 1127-1130: the URL's normalized form was dispatched before
is_duplicate(url) == normalized_of[url] \in normalized_urls

\* check_domain_quota with ">" for ">="
check_domain_quota_above(url) ==
  LET current_count == count_of(domain_counts, domain_table[url])
  IN IF current_count > max_per_domain THEN FALSE ELSE TRUE

\* check_domain_quota(url)
check_domain_quota(url) ==
  LET current_count == count_of(domain_counts, domain_table[url])
  IN IF current_count >= max_per_domain THEN FALSE ELSE TRUE

\* lines 1209-1211
RECURSIVE push_terms(_, _, _)
push_terms(queue, history, terms) ==
  IF terms = << >> THEN queue
  ELSE IF ~in_list(Head(terms), queue) /\ ~in_list(Head(terms), history)
       THEN push_terms(Append(queue, Head(terms)), history, Tail(terms))
       ELSE push_terms(queue, history, Tail(terms))

\* lines 1215-1219 without the test of the queue at line 1218
RECURSIVE push_links_unqueued(_, _, _)
push_links_unqueued(queue, normalized, links) ==
  IF links = << >> THEN queue
  ELSE IF normalized_of[Head(links)] \notin normalized
       THEN push_links_unqueued(Append(queue, Head(links)), normalized, Tail(links))
       ELSE push_links_unqueued(queue, normalized, Tail(links))

\* lines 1215-1219
RECURSIVE push_links(_, _, _)
push_links(queue, normalized, links) ==
  IF links = << >> THEN queue
  ELSE IF normalized_of[Head(links)] \notin normalized /\ ~in_list(Head(links), queue)
       THEN push_links(Append(queue, Head(links)), normalized, Tail(links))
       ELSE push_links(queue, normalized, Tail(links))

\* lines 1236-1238
RECURSIVE push_results(_, _, _)
push_results(queue, visited, urls) ==
  IF urls = << >> THEN queue
  ELSE IF Head(urls) \notin visited /\ ~in_list(Head(urls), queue)
       THEN push_results(Append(queue, Head(urls)), visited, Tail(urls))
       ELSE push_results(queue, visited, Tail(urls))

\* lines 1257-1260 and 1271-1274: << search_queue, search_queries >> after
\* the loop over the template queries
RECURSIVE push_new_queries(_, _, _)
push_new_queries(queue, history, queries) ==
  IF queries = << >> THEN << queue, history >>
  ELSE IF ~in_list(Head(queries), history)
       THEN push_new_queries(Append(queue, Head(queries)),
                             Append(history, Head(queries)), Tail(queries))
       ELSE push_new_queries(queue, history, Tail(queries))

\* line 1194 left out
without_fingerprint(fingerprints, content_data) == fingerprints

\* line 1194
with_fingerprint(fingerprints, content_data) ==
  Append(fingerprints, fingerprint_of[content_data])

\* end_of_iteration with ">= 0" for "> 0" at line 1247
end_of_iteration_deepening(st, queue, urls) ==
  LET limit == st.content_found >= max_content \/ st.pages_visited >= max_pages
      expand == ~limit /\ queue = << >> /\ urls = << >>
      pushed == push_new_queries(queue, search_queries,
                                 IF st.content_found >= 0
                                 THEN DEEPEN[user_query]
                                 ELSE BROADEN[user_query])
  IN [ break |-> limit,
       expansion |-> expand,
       search_queue |-> IF expand THEN pushed[1] ELSE queue,
       search_queries |-> IF expand THEN pushed[2] ELSE search_queries ]

\* lines 1240-1274, reached by an iteration that did not "continue": the
\* limit test (break) and the expansion of the two empty queues
end_of_iteration(st, queue, urls) ==
  LET limit == st.content_found >= max_content \/ st.pages_visited >= max_pages
      expand == ~limit /\ queue = << >> /\ urls = << >>
      pushed == push_new_queries(queue, search_queries,
                                 IF st.content_found > 0
                                 THEN DEEPEN[user_query]
                                 ELSE BROADEN[user_query])
  IN [ break |-> limit,
       expansion |-> expand,
       search_queue |-> IF expand THEN pushed[1] ELSE queue,
       search_queries |-> IF expand THEN pushed[2] ELSE search_queries ]

\* the iteration ends at line 1277 (or breaks at line 1242)
Finish(st, queue, urls, branch, item, raised) ==
  LET e == end_of_iteration(st, queue, urls)
  IN /\ stats' = st
     /\ search_queue' = e.search_queue
     /\ search_queries' = e.search_queries
     /\ content_url_queue' = urls
     /\ pc' = IF e.break THEN "done" ELSE "loop"
     /\ last' = [branch |-> branch, item |-> item,
                 expansion |-> e.expansion, raised |-> raised]
     /\ searched' = IF branch = "search" THEN Append(searched, item) ELSE searched
     /\ UNCHANGED quota_rejected

\* the iteration ends with "continue"
Continue(st, urls, branch, item, raised) ==
  /\ stats' = st
  /\ content_url_queue' = urls
  /\ pc' = "loop"
  /\ last' = [branch |-> branch, item |-> item, expansion |-> FALSE, raised |-> raised]
  /\ quota_rejected' = IF branch = "quota" THEN quota_rejected \cup {item} ELSE quota_rejected
  /\ UNCHANGED << search_queue, search_queries, searched >>

\* The calls an iteration makes, in the order of lines 1127-1214, by the
\* branch it takes; "domain_counts" stands for the increment of line 1191.
calls_of(branch) ==
  LET tested == << "normalize_url" >>
      checked == tested \o << "check_domain_quota" >>
      fetched == checked \o << "fetch_url" >>
      classified == fetched \o << "is_relevant_content" >>
      extracted == classified \o << "extract_content_data" >>
      compared == extracted \o << "is_similar_content" >>
      saved == compared \o << "save_content_data" >>
  IN CASE branch = "duplicate" -> tested
       [] branch = "quota" -> checked
       [] branch = "fetch_failed" -> fetched
       [] branch = "not_relevant" -> classified
       [] branch = "extract_failed" -> extracted
       [] branch = "similar" -> compared
       [] branch = "save_failed" -> saved \o << "find_more_links_on_page" >>
       [] branch = "accepted" ->
            saved \o << "domain_counts", "get_content_fingerprint",
                        "extract_related_search_terms" >>
       [] branch = "search" -> << "search_for_content" >>
       [] OTHER -> << >>

\* lines 1141-1146 without the add of line 1142
Dispatch_unmarked(url, fetched) ==
  /\ ~is_duplicate(url)
  /\ check_domain_quota(url)
  /\ normalized_urls' = normalized_urls
  /\ visited_urls' = visited_urls \cup { url }
  /\ dispatched' = Append(dispatched, [url |-> url, fetched |-> fetched])

\* lines 1141-1146: the URL is dispatched
Dispatch(url, fetched) ==
  /\ ~is_duplicate(url)
  /\ check_domain_quota(url)
  /\ normalized_urls' = normalized_urls \cup { normalized_of[url] }
  /\ visited_urls' = visited_urls \cup { url }
  /\ dispatched' = Append(dispatched, [url |-> url, fetched |-> fetched])

Candidate == pc = "loop" /\ loop_condition /\ content_url_queue # << >>

next_url == content_url_queue[pop_index(content_url_queue)]

rest_urls == remove_at(content_url_queue, pop_index(content_url_queue))

\* What a step of the loop leaves alone: the parameters of the run and, a
\* call of the model being one step of the loop with its outcome, the
\* variables of the retry wrapper, which SpecBackoff follows.
run_setup ==
  << user_query, max_per_domain, max_content, max_pages, api_vars, helper_call >>

\* lines 1130-1133 placed after the count of line 1146
SkipDuplicate_visited ==
  /\ Candidate
  /\ is_duplicate(next_url)
  /\ Continue(Inc(Inc(stats, "duplicates_skipped"), "pages_visited"), rest_urls,
              "duplicate", next_url, {})
  /\ UNCHANGED << run_setup, saved_content, normalized_urls, visited_urls,
                  domain_counts, content_fingerprints, dispatched >>

\* lines 1130-1133
SkipDuplicate ==
  /\ Candidate
  /\ is_duplicate(next_url)
  /\ Continue(Inc(stats, "duplicates_skipped"), rest_urls, "duplicate", next_url, {})
  /\ UNCHANGED << run_setup, saved_content, normalized_urls, visited_urls,
                  domain_counts, content_fingerprints, dispatched >>

\* lines 1136-1139 placed after the add of line 1142
SkipQuota_marking ==
  /\ Candidate
  /\ ~is_duplicate(next_url)
  /\ ~check_domain_quota(next_url)
  /\ normalized_urls' = normalized_urls \cup { normalized_of[next_url] }
  /\ Continue(Inc(stats, "domain_quota_exceeded"), rest_urls, "quota", next_url, {})
  /\ UNCHANGED << run_setup, saved_content, visited_urls, domain_counts,
                  content_fingerprints, dispatched >>

\* lines 1136-1139 without the count of line 1138
SkipQuota_uncounted ==
  /\ Candidate
  /\ ~is_duplicate(next_url)
  /\ ~check_domain_quota(next_url)
  /\ Continue(stats, rest_urls, "quota", next_url, {})
  /\ UNCHANGED << run_setup, saved_content, normalized_urls, visited_urls,
                  domain_counts, content_fingerprints, dispatched >>

\* lines 1136-1139
SkipQuota ==
  /\ Candidate
  /\ ~is_duplicate(next_url)
  /\ ~check_domain_quota(next_url)
  /\ Continue(Inc(stats, "domain_quota_exceeded"), rest_urls, "quota", next_url, {})
  /\ UNCHANGED << run_setup, saved_content, normalized_urls, visited_urls,
                  domain_counts, content_fingerprints, dispatched >>

\* lines 1152-1155 with the failed fetch counted twice
FetchFailed_twice ==
  /\ Candidate
  /\ Dispatch(next_url, FALSE)
  /\ Continue(Inc(Inc(Inc(stats, "pages_visited"), "errors"), "errors"), rest_urls,
              "fetch_failed", next_url, {})
  /\ UNCHANGED << run_setup, saved_content, domain_counts, content_fingerprints >>

\* lines 1152-1155 without the count of line 1154
FetchFailed_uncounted ==
  /\ Candidate
  /\ Dispatch(next_url, FALSE)
  /\ Continue(Inc(stats, "pages_visited"), rest_urls, "fetch_failed", next_url, {})
  /\ UNCHANGED << run_setup, saved_content, domain_counts, content_fingerprints >>

\* lines 1152-1155: fetch_url returned None
FetchFailed ==
  /\ Candidate
  /\ Dispatch(next_url, FALSE)
  /\ Continue(Inc(Inc(stats, "pages_visited"), "errors"), rest_urls,
              "fetch_failed", next_url, {})
  /\ UNCHANGED << run_setup, saved_content, domain_counts, content_fingerprints >>

\* lines 1158-1166: the page is not judged relevant
NotRelevant ==
  /\ Candidate
  /\ Dispatch(next_url, TRUE)
  /\ \E response \in ClassifyResponses :
       LET verdict == is_relevant_content(response)
           raised == IF response.raised THEN {"classify"} ELSE {}
           st == Inc(stats, "pages_visited")
       IN /\ verdict.raised \/ ~verdict.value
          /\ IF verdict.raised
             THEN Continue(Inc(st, "errors"), rest_urls, "not_relevant", next_url, raised)
             ELSE Finish(st, search_queue, rest_urls, "not_relevant", next_url, raised)
  /\ UNCHANGED << run_setup, saved_content, domain_counts, content_fingerprints >>

\* lines 1170-1174 and 1220-1222: relevant, but no record was extracted
ExtractFailed ==
  /\ Candidate
  /\ Dispatch(next_url, TRUE)
  /\ \E response \in ExtractResponses :
       LET verdict == is_relevant_content(Returned("yes"))
           content == extract_content_data(response)
           raised == IF response.raised THEN {"extract"} ELSE {}
           st == Inc(stats, "pages_visited")
       IN /\ ~verdict.raised /\ verdict.value
          /\ content.raised \/ content.none
          /\ Finish(IF content.raised THEN Inc(st, "errors") ELSE st,
                    search_queue, rest_urls, "extract_failed", next_url, raised)
  /\ UNCHANGED << run_setup, saved_content, domain_counts, content_fingerprints >>

\* the records extract_content_data may hand to the loop at line 1172
ExtractedRecords ==
  { response \in ExtractResponses :
      /\ ~extract_content_data(response).raised
      /\ ~extract_content_data(response).none }

\* lines 1176-1179 with the fingerprint of the similar record stored
SimilarSkipped_storing ==
  /\ Candidate
  /\ Dispatch(next_url, TRUE)
  /\ is_relevant_content(Returned("yes")).value
  /\ \E response \in ExtractedRecords :
       /\ is_similar_content(content_fingerprints,
                             fingerprint_of[extract_content_data(response).value])
       /\ content_fingerprints' =
            with_fingerprint(content_fingerprints, extract_content_data(response).value)
       /\ Continue(Inc(Inc(stats, "pages_visited"), "similar_content_skipped"),
                   rest_urls, "similar", next_url, {})
  /\ UNCHANGED << run_setup, saved_content, domain_counts >>

\* lines 1176-1179: the record is similar to a stored one
SimilarSkipped ==
  /\ Candidate
  /\ Dispatch(next_url, TRUE)
  /\ is_relevant_content(Returned("yes")).value
  /\ \E response \in ExtractedRecords :
       LET content == extract_content_data(response)
       IN /\ is_similar_content(content_fingerprints, fingerprint_of[content.value])
          /\ Continue(Inc(Inc(stats, "pages_visited"), "similar_content_skipped"),
                      rest_urls, "similar", next_url, {})
  /\ UNCHANGED << run_setup, saved_content, domain_counts, content_fingerprints >>

\* SaveFailed with the domain counted (lines 1190-1191) before the test of
\* line 1184
SaveFailed_counting ==
  /\ Candidate
  /\ Dispatch(next_url, TRUE)
  /\ is_relevant_content(Returned("yes")).value
  /\ \E response \in ExtractedRecords :
       /\ ~is_similar_content(content_fingerprints,
                              fingerprint_of[extract_content_data(response).value])
       /\ \E links_response \in LinksResponses :
            LET links == find_more_links_on_page(links_response)
                raised == IF links_response.raised THEN {"links"} ELSE {}
                st == Inc(stats, "pages_visited")
            IN Finish(IF links.raised THEN Inc(st, "errors") ELSE st,
                      search_queue,
                      IF links.raised THEN rest_urls
                      ELSE push_links(rest_urls, normalized_urls', links.value),
                      "save_failed", next_url, raised)
  /\ domain_counts' = count_up(domain_counts, domain_table[next_url])
  /\ UNCHANGED << run_setup, saved_content, content_fingerprints >>

\* lines 1182-1184 and 1214-1219: save_content_data returned None
SaveFailed ==
  /\ Candidate
  /\ Dispatch(next_url, TRUE)
  /\ is_relevant_content(Returned("yes")).value
  /\ \E response \in ExtractedRecords :
       /\ ~is_similar_content(content_fingerprints,
                              fingerprint_of[extract_content_data(response).value])
       /\ \E links_response \in LinksResponses :
            LET links == find_more_links_on_page(links_response)
                raised == IF links_response.raised THEN {"links"} ELSE {}
                st == Inc(stats, "pages_visited")
            IN Finish(IF links.raised THEN Inc(st, "errors") ELSE st,
                      search_queue,
                      IF links.raised THEN rest_urls
                      ELSE push_links(rest_urls, normalized_urls', links.value),
                      "save_failed", next_url, raised)
  /\ UNCHANGED << run_setup, saved_content, domain_counts, content_fingerprints >>

\* lines 1182-1219: the record is persisted
Accepted ==
  /\ Candidate
  /\ Dispatch(next_url, TRUE)
  /\ is_relevant_content(Returned("yes")).value
  /\ \E response \in ExtractedRecords :
       LET content == extract_content_data(response)
           st == Inc(Inc(stats, "pages_visited"), "content_found")
       IN /\ ~is_similar_content(content_fingerprints, fingerprint_of[content.value])
          /\ domain_counts' = count_up(domain_counts, domain_table[next_url])
          /\ content_fingerprints' = with_fingerprint(content_fingerprints, content.value)
          /\ saved_content' =
               Append(saved_content,
                      [ title |-> content.value.title, url |-> next_url,
                        date_published |-> content.value.date_published,
                        relevance_score |-> content.value.relevance_score ])
          /\ \E terms_response \in TermsResponses :
               LET terms == extract_related_search_terms(terms_response)
                   terms_raised == IF terms_response.raised THEN {"terms"} ELSE {}
               IN IF terms.raised
                  \* the exception leaves the try block: line 1214 is not reached
                  THEN Finish(Inc(st, "errors"), search_queue, rest_urls,
                              "accepted", next_url, terms_raised)
                  ELSE \E links_response \in LinksResponses :
                         LET links == find_more_links_on_page(links_response)
                             raised == terms_raised \cup
                                         (IF links_response.raised THEN {"links"} ELSE {})
                             queue == push_terms(search_queue, search_queries, terms.value)
                         IN Finish(IF links.raised THEN Inc(st, "errors") ELSE st,
                                   queue,
                                   IF links.raised THEN rest_urls
                                   ELSE push_links(rest_urls, normalized_urls', links.value),
                                   "accepted", next_url, raised)
  /\ UNCHANGED run_setup

\* lines 1224-1238: a search query is processed
Search ==
  /\ pc = "loop" /\ loop_condition
  /\ content_url_queue = << >>
  /\ search_queue # << >>
  /\ \E google \in URL_LISTS :
     \E scraped \in (IF google = << >> THEN URL_LISTS ELSE { << >> }) :
     \E ranking \in RankingResponses(IF google # << >> THEN google ELSE scraped) :
       LET query == search_queue[pop_index(search_queue)]
           queue == remove_at(search_queue, pop_index(search_queue))
           found == search_for_content(google, scraped, ranking)
           raised == IF ranking.raised THEN {"ranking"} ELSE {}
           st == Inc(stats, "search_queries_used")
       IN IF found.raised
          THEN /\ pc' = "aborted"
               /\ stats' = st
               /\ search_queue' = queue
               /\ last' = [branch |-> "search", item |-> query,
                           expansion |-> FALSE, raised |-> raised]
               /\ searched' = Append(searched, query)
               /\ UNCHANGED << search_queries, content_url_queue, quota_rejected >>
          ELSE Finish(st, queue,
                      push_results(content_url_queue, visited_urls, found.value),
                      "search", query, raised)
  /\ UNCHANGED << run_setup, saved_content, normalized_urls, visited_urls,
                  domain_counts, content_fingerprints, dispatched >>

\* the while test of line 1120 fails
LoopExit ==
  /\ pc = "loop"
  /\ ~loop_condition
  /\ pc' = "done"
  /\ UNCHANGED << run_setup, stats, search_queries, search_queue, content_url_queue,
                  saved_content, normalized_urls, visited_urls, domain_counts,
                  content_fingerprints, dispatched, last, searched, quota_rejected >>

Next ==
  \/ SkipDuplicate
  \/ SkipQuota
  \/ FetchFailed
  \/ NotRelevant
  \/ ExtractFailed
  \/ SimilarSkipped
  \/ SaveFailed
  \/ Accepted
  \/ Search
  \/ LoopExit

Spec == Init /\ [][Next]_vars

\* The loop body runs to its end and the while test is taken again: the
\* collaborators' calls return or fail, none hangs.
FairSpec == Spec /\ WF_vars(Next)

(***************************************************************************)
(* api_call_with_backoff, attempt by attempt.                              *)
(***************************************************************************)

\* the calls of the model
MaxCalls == 3

\* one attempt more than line 152 allows
max_retries_and_one == 5 + 1

\* line 152
max_retries == 5

min(a, b) == IF a < b THEN a ELSE b

\* line 172 adding 5 where it doubles
next_backoff_time_linear(current) == min(current + 5, max_backoff)

\* line 172
next_backoff_time(current) == min(current * 2, max_backoff)

event(kind, seconds) == [kind |-> kind, seconds |-> seconds]

\* lines 143-149 with no sleep at all
sleep_time_none(time_since_last_call, interval) == 0

\* lines 143-149 and 308-314: the sleep that fills the interval
sleep_time(time_since_last_call, interval) ==
  IF time_since_last_call < interval THEN interval - time_since_last_call ELSE 0

\* a request of one class beginning at an instant
request(class, at) == [class |-> class, at |-> at]

\* lines 157-158: the timestamp is taken and func is called
attempt ==
  /\ last_api_call' = clock
  /\ requests' = Append(requests, request("generative", clock))
  /\ UNCHANGED last_search_api_call

\* the calls begun so far
calls == Cardinality({ i \in DOMAIN events : events[i].kind = "call" })

\* What a step of the wrapper leaves alone: the variables of the loop.
crawl_vars ==
  << pc, user_query, max_per_domain, max_content, max_pages, stats,
     search_queries, search_queue, content_url_queue, saved_content,
     normalized_urls, visited_urls, domain_counts, content_fingerprints,
     dispatched, last, searched, quota_rejected, helper_call >>

\* lines 143-153 with the local back-off starting at the floor
ApiCall_floor ==
  /\ api_pc = "idle"
  /\ calls < MaxCalls
  /\ events' = Append(events, event("call", backoff_time))
  /\ clock' = clock + sleep_time(clock - last_api_call, min_api_interval)
  /\ backoff' = initial_backoff_time
  /\ retries' = 0
  /\ api_pc' = "trying"
  /\ UNCHANGED << backoff_time, last_api_call, last_search_api_call, requests,
                  crawl_vars >>

\* lines 143-153: the call begins (its pacing sleep of lines 146-149 is no
\* back-off sleep and is not recorded) and sets its locals
ApiCall ==
  /\ api_pc = "idle"
  /\ calls < MaxCalls
  /\ events' = Append(events, event("call", backoff_time))
  /\ clock' = clock + sleep_time(clock - last_api_call, min_api_interval)
  /\ backoff' = backoff_time
  /\ retries' = 0
  /\ api_pc' = "trying"
  /\ UNCHANGED << backoff_time, last_api_call, last_search_api_call, requests,
                  crawl_vars >>

\* lines 157-161 without the reset of line 160
ApiSuccess_keeping ==
  /\ api_pc = "trying"
  /\ retries < max_retries
  /\ api_pc' = "returned"
  /\ events' = Append(events, event("success", 0))
  /\ attempt
  /\ UNCHANGED << backoff_time, backoff, retries, clock, crawl_vars >>

\* lines 157-161: func returned
ApiSuccess ==
  /\ api_pc = "trying"
  /\ retries < max_retries
  /\ backoff_time' = 5
  /\ api_pc' = "returned"
  /\ events' = Append(events, event("success", 0))
  /\ attempt
  /\ UNCHANGED << backoff, retries, clock, crawl_vars >>

\* lines 163-173 and 180-181: func raised a rate-limit error
ApiRateLimited ==
  /\ api_pc = "trying"
  /\ retries < max_retries
  /\ retries' = retries + 1
  /\ events' = Append(events, event("backoff", backoff))
  /\ attempt
  /\ clock' = clock + backoff
  /\ backoff_time' = next_backoff_time(backoff_time)
  /\ backoff' = backoff_time'
  /\ api_pc' = IF retries' >= max_retries THEN "raised" ELSE "trying"
  /\ UNCHANGED crawl_vars

\* lines 174-177 raising the back-off as lines 170-173 do
ApiOtherError_doubling ==
  /\ api_pc = "trying"
  /\ retries < max_retries
  /\ retries' = retries + 1
  /\ events' = Append(events, event("retry", 5))
  /\ attempt
  /\ clock' = clock + 5
  /\ backoff_time' = next_backoff_time(backoff_time)
  /\ backoff' = backoff_time'
  /\ api_pc' = IF retries' >= max_retries THEN "raised" ELSE "trying"
  /\ UNCHANGED crawl_vars

\* lines 163-166 and 174-181: func raised another error
ApiOtherError ==
  /\ api_pc = "trying"
  /\ retries < max_retries
  /\ retries' = retries + 1
  /\ events' = Append(events, event("retry", 5))
  /\ attempt
  /\ clock' = clock + 5
  /\ api_pc' = IF retries' >= max_retries THEN "raised" ELSE "trying"
  /\ UNCHANGED << backoff_time, backoff, crawl_vars >>

\* the caller goes on with the result or the exception
ApiDone ==
  /\ api_pc \in {"returned", "raised"}
  /\ api_pc' = "idle"
  /\ UNCHANGED << backoff_time, backoff, retries, events, pace_vars, crawl_vars >>

NextBackoff ==
  \/ ApiCall
  \/ ApiSuccess
  \/ ApiRateLimited
  \/ ApiOtherError
  \/ ApiDone

\* the wrapper on its own, on a fresh crawler
InitBackoff ==
  /\ Init
  /\ max_per_domain = MaxPerDomain
  /\ max_content = MaxContent
  /\ max_pages = MaxPages

SpecBackoff == InitBackoff /\ [][NextBackoff]_vars

(***************************************************************************)
(* The pacing of the two classes of calls, on a clock of whole seconds:    *)
(* calls of the model through api_call_with_backoff, and requests of       *)
(* google_custom_search, the crawler doing one thing at a time.            *)
(***************************************************************************)

\* the requests of the model
MaxRequests == 5

\* the seconds the crawler spends on other work after a request
MaxIdle == 2

\* the seconds a search request takes
MaxTook == 1

\* when the latest request began
latest_request ==
  IF requests = << >> THEN StartClock ELSE requests[Len(requests)].at

\* a second passes between two calls
Tick ==
  /\ api_pc = "idle"
  /\ clock < latest_request + MaxIdle
  /\ clock' = clock + 1
  /\ UNCHANGED << backoff_time, backoff, retries, api_pc, events, last_api_call,
                  last_search_api_call, requests, crawl_vars >>

\* lines 340-341, and lines 362-370 when the dated search found fewer than
\* three results: the instants the requests of one call begin, the first
\* beginning at `began` and each taking `took` seconds
search_requests(began, took, second) ==
  IF second THEN << request("search", began), request("search", began + took + 1) >>
  ELSE << request("search", began) >>

\* google_custom_search(query): the pacing sleep of lines 308-314, the
\* request of lines 340-341 and, for a dated query with fewer than three
\* results, the sleep of line 367 and the request of lines 369-370
GoogleCustomSearch ==
  /\ api_pc = "idle"
  /\ \E second \in BOOLEAN, took \in 0..MaxTook :
       /\ Len(requests) + (IF second THEN 2 ELSE 1) <= MaxRequests
       /\ requests' =
            requests \o
            search_requests(
              clock + sleep_time(clock - last_search_api_call, min_search_api_interval),
              took, second)
       /\ last_search_api_call' = requests'[Len(requests')].at
       /\ clock' = last_search_api_call' + took
  /\ UNCHANGED << backoff_time, backoff, retries, api_pc, events, last_api_call,
                  crawl_vars >>

\* the requests so far leave room for one more
room == Len(requests) < MaxRequests

NextPacing ==
  \/ room /\ ApiCall
  \/ room /\ ApiSuccess
  \/ room /\ ApiRateLimited
  \/ room /\ ApiOtherError
  \/ ApiDone
  \/ GoogleCustomSearch
  \/ Tick

SpecPacing == InitBackoff /\ [][NextPacing]_vars

(***************************************************************************)
(* Direct calls of is_similar_content, on records chosen to meet each of   *)
(* its branches.                                                           *)
(***************************************************************************)

\* the most fingerprints stored when is_similar_content is called
MaxStored == 2

\* summaries; long, near and far have more than 50 characters, big1 and
\* big2 more than 100 with the same first 100
SUMMARY ==
  [ long |-> phrase(<< WORD.what, WORD.you, WORD.need, WORD.to, WORD.know, WORD.about,
                       WORD.important, WORD.information, WORD.complete, WORD.guide >>),
    \* 9 of its 11 words are words of long
    near |-> phrase(<< WORD.what, WORD.you, WORD.need, WORD.to, WORD.know, WORD.about,
                       WORD.important, WORD.information, WORD.complete, WORD.overview >>),
    \* 7 of the 10 words of long and no other
    edge |-> phrase(<< WORD.important, WORD.information, WORD.complete, WORD.guide,
                       WORD.about, WORD.what, WORD.know >>),
    far |-> phrase(<< WORD.latest, WORD.recent, WORD.developments, WORD.research,
                      WORD.updated, WORD.overview, WORD.introduction, WORD.basics,
                      WORD.beginners >>),
    big1 |-> phrase(<< WORD.what, WORD.you, WORD.need, WORD.to, WORD.know, WORD.about,
                       WORD.important, WORD.information, WORD.complete, WORD.guide,
                       WORD.latest, WORD.recent, WORD.developments, WORD.research,
                       WORD.updated, WORD.overview >>),
    big2 |-> phrase(<< WORD.what, WORD.you, WORD.need, WORD.to, WORD.know, WORD.about,
                       WORD.important, WORD.information, WORD.complete, WORD.guide,
                       WORD.latest, WORD.recent, WORD.developments, WORD.research,
                       WORD.basics, WORD.for, WORD.beginners >>) ]

\* a record as extract_content_data returns it; key_points is the text
\* str(key_points)
content_record(title, summary, key_points) ==
  [ title |-> title, summary |-> summary,
    key_points |-> << "[" >> \o key_points \o << "]" >>,
    date_published |-> WORD.Unknown, relevance_score |-> 5 ]

\* the record made of {"raw_text": response_text}, which
\* extract_json_from_response returns for a response it cannot parse: no
\* title, no summary, no key points
D_RAW_TEXT == content_record(<< >>, << >>, << >>)

\* a record with a title and a summary whose list of key points is empty
D_NO_KEY_POINTS == content_record(phrase(<< WORD.AI, WORD.know >>), << "s", "e" >>, << >>)

\* the records is_similar_content is called with
RECORDS ==
  { D_INTRO, D_COMPLETE, D_RAW, D_RAW_TEXT, D_NO_KEY_POINTS,
    \* a title of more than 20 characters that contains that of D_COMPLETE
    content_record(T_COMPLETE \o SP \o WORD.guide, << "s", "4" >>, << "k", "4" >>),
    \* the title of D_INTRO in capitals
    content_record(<< "I", "N", "T", "R", "O" >> \o SP \o << "T", "O" >> \o SP \o WORD.AI,
                   << "s", "5" >>, << "k", "5" >>),
    \* no title, long summaries
    content_record(<< >>, SUMMARY.long, << "k", "6" >>),
    content_record(<< >>, SUMMARY.near, << "k", "7" >>),
    content_record(phrase(<< WORD.AI, WORD.basics >>), SUMMARY.edge, << "k", "8" >>),
    content_record(phrase(<< WORD.AI, WORD.research >>), SUMMARY.far, << "k", "9" >>),
    \* the short summary of D_INTRO under another title
    content_record(phrase(<< WORD.AI, WORD.overview >>), << "s", "1" >>, << "k", "a" >>),
    content_record(phrase(<< WORD.AI, WORD.guide >>), SUMMARY.big1, << "k", "b" >>),
    content_record(phrase(<< WORD.AI, WORD.for, WORD.beginners >>), SUMMARY.big2,
                   << "k", "c" >>),
    \* the key points of D_INTRO under another title and summary
    content_record(phrase(<< WORD.AI, WORD.insights >>), << "s", "d" >>, << "k", "1" >>) }

\* the fingerprint of every record of RECORDS, computed once
record_fingerprint == [content_data \in RECORDS |-> get_content_fingerprint(content_data)]

\* what a direct call of a helper leaves alone
uncalled ==
  << pc, user_query, max_per_domain, max_content, max_pages, stats,
     search_queries, search_queue, content_url_queue, saved_content,
     normalized_urls, visited_urls, domain_counts, dispatched, last, searched,
     quota_rejected, api_vars >>

\* line 1194 on its own: the crawler comes to hold the fingerprint of one
\* more record
StoreFingerprint ==
  /\ helper_call.fn = "none"
  /\ Len(content_fingerprints) < MaxStored
  /\ \E content_data \in RECORDS :
       content_fingerprints' = Append(content_fingerprints, record_fingerprint[content_data])
  /\ UNCHANGED << uncalled, helper_call >>

\* is_similar_content(content_data) on the fingerprints stored so far
CallIsSimilarContent ==
  /\ helper_call.fn = "none"
  /\ \E content_data \in RECORDS :
       helper_call' =
         [ fn |-> "is_similar_content", content_data |-> content_data,
           result |-> is_similar_content(content_fingerprints,
                                         record_fingerprint[content_data]) ]
  /\ UNCHANGED << uncalled, content_fingerprints >>

NextHelpers == StoreFingerprint \/ CallIsSimilarContent

SpecHelpers == InitBackoff /\ [][NextHelpers]_vars

(***************************************************************************)
(* Direct calls of normalize_url: on a URL, then on its own result or on   *)
(* a URL that differs from the first in one of its parts.                  *)
(***************************************************************************)

\* the most query parameters of a URL normalize_url is called with
MaxParams == 2

HOSTS == { << "a", ".", "c", "o", "m" >>, << "A", ".", "c", "o", "m" >> }

PATHS == { << "/", "p" >>, << "/", "P" >>, << "/", "p", ";", "x" >> }

\* a=1, a=2, b=2, ref=1, ref=2, utm_source=x, utm_term=x and x
PARAMS ==
  { << "a", "=", "1" >>, << "a", "=", "2" >>, << "b", "=", "2" >>,
    << "r", "e", "f", "=", "1" >>, << "r", "e", "f", "=", "2" >>,
    << "u", "t", "m", "_", "s", "o", "u", "r", "c", "e", "=", "x" >>,
    << "u", "t", "m", "_", "t", "e", "r", "m", "=", "x" >>,
    << "x" >> }

PARAM_LISTS == UNION { [1..n -> PARAMS] : n \in 0..MaxParams }

\* the parts a URL is written from: [scheme://]host path [/] [?param&...]
URL_PARTS ==
  [ prefix : { HTTP, << >> }, host : HOSTS, path : PATHS, slash : BOOLEAN,
    params : PARAM_LISTS ]

url_text(parts) ==
  parts.prefix \o parts.host \o parts.path
    \o (IF parts.slash THEN << "/" >> ELSE << >>)
    \o (IF parts.params = << >> THEN << >>
        ELSE << "?" >> \o join(parts.params, << "&" >>))

\* the URLs that differ from that of parts in the one part named
one_part_changed(parts, part) ==
  CASE part = "host" -> { [parts EXCEPT !.host = host] : host \in HOSTS \ { parts.host } }
    [] part = "path" -> { [parts EXCEPT !.path = path] : path \in PATHS \ { parts.path } }
    [] part = "slash" -> { [parts EXCEPT !.slash = ~ parts.slash] }
    [] part = "params" ->
         { [parts EXCEPT !.params = params] : params \in PARAM_LISTS \ { parts.params } }

\* normalize_url(url), url written from parts
CallNormalizeUrl ==
  /\ helper_call.fn = "none"
  /\ \E parts \in URL_PARTS :
       helper_call' =
         [ fn |-> "normalize_url", after |-> "none", parts |-> parts,
           url |-> url_text(parts), result |-> normalize_url(url_text(parts)) ]
  /\ UNCHANGED << uncalled, content_fingerprints >>

\* normalize_url on the result of the call before
NormalizeResult ==
  /\ helper_call.fn = "normalize_url"
  /\ helper_call.after = "none"
  /\ helper_call' =
       [ fn |-> "normalize_url", after |-> "result", before |-> helper_call,
         url |-> helper_call.result, result |-> normalize_url(helper_call.result) ]
  /\ UNCHANGED << uncalled, content_fingerprints >>

\* normalize_url on a URL that differs in one part from that of the call
\* before
NormalizeVariant ==
  /\ helper_call.fn = "normalize_url"
  /\ helper_call.after = "none"
  /\ \E part \in { "host", "path", "slash", "params" } :
       \E parts \in one_part_changed(helper_call.parts, part) :
         helper_call' =
           [ fn |-> "normalize_url", after |-> part, before |-> helper_call,
             parts |-> parts, url |-> url_text(parts),
             result |-> normalize_url(url_text(parts)) ]
  /\ UNCHANGED << uncalled, content_fingerprints >>

NextNormalize == CallNormalizeUrl \/ NormalizeResult \/ NormalizeVariant

SpecNormalize == InitBackoff /\ [][NextNormalize]_vars

(***************************************************************************)
(* The report after the loop (lines 1296-1303): the summaries of the       *)
(* persisted records are sorted for printing.                              *)
(***************************************************************************)

\* the most summaries sorted
MaxSaved == 3

\* date_published: a date, and the texts of a record without one
DATES ==
  { << "2", "0", "2", "4" >>, WORD.Unknown,
    << "u", "n", "k", "n", "o", "w", "n", " ", "d", "a", "t", "e" >>, << >> }

\* the summaries of line 1196; relevance_score is a number (for a number
\* x, "x or 0" is x)
SUMMARIES ==
  [ title : { T_INTRO }, url : { 1 }, date_published : DATES,
    relevance_score : { 0, 5, 9 } ]

\* line 1302 with the two ranks exchanged
date_rank_unknown_first(date_published) ==
  IF lower(date_published)
       \in { << "u", "n", "k", "n", "o", "w", "n" >>,
             << "u", "n", "k", "n", "o", "w", "n", " ", "d", "a", "t", "e" >>, << >> }
  THEN -1 ELSE 0

\* line 1302: the second part of the sort key
date_rank(date_published) ==
  IF lower(date_published)
       \in { << "u", "n", "k", "n", "o", "w", "n" >>,
             << "u", "n", "k", "n", "o", "w", "n", " ", "d", "a", "t", "e" >>, << >> }
  THEN 0 ELSE -1

\* lines 1299-1303: the key of a summary
sort_key(x) == << 0 - x.relevance_score, date_rank(x.date_published) >>

\* k1 < k2 for two such tuples
key_less(k1, k2) == k1[1] < k2[1] \/ (k1[1] = k2[1] /\ k1[2] < k2[2])

\* x put into a sorted list after the items whose key is not greater
RECURSIVE insert_by_key(_, _)
insert_by_key(list, x) ==
  IF list = << >> THEN << x >>
  ELSE IF key_less(sort_key(x), sort_key(Head(list))) THEN << x >> \o list
  ELSE << Head(list) >> \o insert_by_key(Tail(list), x)

\* sorted(saved_content, key=...): a stable sort
RECURSIVE sorted_by_key(_, _)
sorted_by_key(list, done) ==
  IF list = << >> THEN done
  ELSE sorted_by_key(Tail(list), insert_by_key(done, Head(list)))

\* line 1196 on its own: one more record was persisted
SaveSummary ==
  /\ helper_call.fn = "none"
  /\ Len(saved_content) < MaxSaved
  /\ \E x \in SUMMARIES : saved_content' = Append(saved_content, x)
  /\ UNCHANGED << pc, user_query, max_per_domain, max_content, max_pages, stats,
                  search_queries, search_queue, content_url_queue, normalized_urls,
                  visited_urls, domain_counts, content_fingerprints, dispatched,
                  last, searched, quota_rejected, api_vars, helper_call >>

\* lines 1296-1303, after the loop
Report ==
  /\ helper_call.fn = "none"
  /\ saved_content # << >>
  /\ pc' = "done"
  /\ helper_call' = [ fn |-> "sorted", result |-> sorted_by_key(saved_content, << >>) ]
  /\ UNCHANGED << user_query, max_per_domain, max_content, max_pages, stats,
                  search_queries, search_queue, content_url_queue, saved_content,
                  normalized_urls, visited_urls, domain_counts, content_fingerprints,
                  dispatched, last, searched, quota_rejected, api_vars >>

NextReport == SaveSummary \/ Report

SpecReport == InitBackoff /\ [][NextReport]_vars

(***************************************************************************)
(* The properties checked.                                                 *)
(***************************************************************************)

is_prefix(s, t) == Len(s) <= Len(t) /\ SubSeq(t, 1, Len(s)) = s

\* the run's limits are both unmet
limits_unmet ==
  stats.pages_visited < max_pages /\ stats.content_found < max_content

\* C1: no normalized URL is dispatched more than once in a run: the
\* normalized forms of the dispatched candidate URLs are pairwise distinct.
C1_NoRedispatch ==
  \A i, j \in DOMAIN dispatched :
    i # j => normalized_of[dispatched[i].url] # normalized_of[dispatched[j].url]

\* two URLs were dispatched and a third candidate was skipped as a duplicate
C1_Witness == Len(dispatched) = 2 /\ stats.duplicates_skipped > 0

\* C2: for every domain d, domain_counts[d] <= max_per_domain after any
\* sequence of loop iterations.
C2_QuotaInvariant ==
  \A d \in DOMAIN domain_counts : domain_counts[d] <= max_per_domain

\* a host has reached its quota and a candidate of it was rejected
C2_Witness ==
  /\ stats.domain_quota_exceeded > 0
  /\ \E d \in DOMAIN domain_counts :
       domain_counts[d] = max_per_domain /\ domain_counts[d] > 0

\* C3: at the end of every loop iteration the number of stored content
\* fingerprints equals stats.content_found.
C3_FingerprintCount == Len(content_fingerprints) = stats.content_found

\* a record was accepted and a later one was rejected as similar
C3_Witness == stats.content_found = 1 /\ stats.similar_content_skipped = 1

\* C4: pages_visited <= max_pages and content_found <= max_content in every
\* state, and a candidate is dispatched only while both limits are unmet.
C4_LimitsRespected ==
  /\ [](stats.pages_visited <= max_pages /\ stats.content_found <= max_content)
  /\ [][dispatched' # dispatched => limits_unmet]_vars

\* the run ended at the page limit with a candidate still queued
C4_Witness ==
  /\ pc = "done"
  /\ max_pages > 0
  /\ stats.pages_visited = max_pages
  /\ content_url_queue # << >>

\* every fetch of the run failed
every_fetch_failed == \A i \in DOMAIN dispatched : ~dispatched[i].fetched

\* C5: crawl_for_content always eventually leaves the main loop and returns
\* its stats; when every fetch failed, content_found is 0 there.
C5_Terminates ==
  /\ <>(pc = "done")
  /\ [](pc = "done" /\ every_fetch_failed => stats.content_found = 0)

\* the run is over, pages were dispatched and every fetch failed
C5_Witness == pc = "done" /\ dispatched # << >> /\ every_fetch_failed

\* C6: the crawl never reaches Done with both limits unmet without having
\* attempted the expansion step after its last work item.
C6_ExpansionBeforeDone == pc = "done" /\ limits_unmet => last.expansion

\* C7: a search query is popped only when the candidate queue is empty; when
\* a candidate is queued the item popped is a candidate; each queue gives its
\* items in the order they were pushed (the head is taken, pushes go to the
\* end).
C7_PopOrder ==
  [][ /\ stats'.search_queries_used # stats.search_queries_used
           => /\ content_url_queue = << >>
              /\ last'.branch = "search"
              /\ last'.item = Head(search_queue)
              /\ is_prefix(Tail(search_queue), search_queue')
      /\ content_url_queue # << >> /\ stats' # stats
           => /\ last'.branch # "search"
              /\ last'.item = Head(content_url_queue)
              /\ is_prefix(Tail(content_url_queue), content_url_queue')
              /\ stats'.search_queries_used = stats.search_queries_used ]_vars

\* a candidate was popped from a queue of several while queries were pending
C7_Witness ==
  /\ last.branch = "quota"
  /\ content_url_queue # << >>
  /\ search_queue # << >>

\* the latest back-off sleep or success before event i, 0 when there is none
previous_mark(i) ==
  LET marks == { j \in 1..(i - 1) : events[j].kind \in {"backoff", "success"} }
  IN IF marks = {} THEN 0 ELSE CHOOSE j \in marks : \A k \in marks : k <= j

\* C8: each back-off sleep is the double of the previous one, held at the
\* ceiling max_backoff; the first one, and the first one after a successful
\* call, is the floor 5.
C8_BackoffDoubles ==
  \A i \in DOMAIN events :
    events[i].kind = "backoff" =>
      events[i].seconds =
        IF previous_mark(i) = 0 \/ events[previous_mark(i)].kind = "success"
        THEN 5
        ELSE min(2 * events[previous_mark(i)].seconds, max_backoff)

\* a call slept 5, 10, 20, 40, 60 and gave up; the next one slept 60 and
\* succeeded; the third slept 5
C8_Witness ==
  events = << event("call", 5), event("backoff", 5), event("backoff", 10),
              event("backoff", 20), event("backoff", 40), event("backoff", 60),
              event("call", 60), event("backoff", 60), event("success", 0),
              event("call", 5), event("backoff", 5) >>

\* the "call" event of the latest call
latest_call ==
  CHOOSE i \in DOMAIN events :
    events[i].kind = "call" /\ \A j \in (i + 1)..Len(events) : events[j].kind # "call"

\* the sleeps of the latest call, in seconds
latest_sleeps ==
  [i \in 1..(Len(events) - latest_call) |-> events[latest_call + i].seconds]

\* the latest call began at the floor 5, hit the rate limit on every attempt
\* and is raising to its caller
rate_limited_throughout ==
  /\ api_pc = "raised"
  /\ events[latest_call].seconds = 5
  /\ \A j \in (latest_call + 1)..Len(events) : events[j].kind = "backoff"

\* C9, as the code has it: a call that hits the rate limit on every attempt,
\* from the floor 5 and under the ceiling 60, sleeps 5, 10, 20, 40, 60 (five
\* sleeps for five failures) before the failure reaches the caller.
C9_FiveSleeps ==
  rate_limited_throughout => latest_sleeps = << 5, 10, 20, 40, 60 >>

\* C9, as stated: the sleeps are 5, 10, 20, 40, 60, 60
C9_SixSleeps ==
  rate_limited_throughout => latest_sleeps = << 5, 10, 20, 40, 60, 60 >>

\* such a call is raising
C9_Witness == rate_limited_throughout /\ calls = 1

dispatching == dispatched' # dispatched

\* C11: when the classifier's call fails for a dispatched URL, stats.errors
\* goes up by one and the loop continues.
C11_ClassifierFailureCounted ==
  [][dispatching /\ "classify" \in last'.raised
       => stats'.errors = stats.errors + 1 /\ pc' # "aborted"]_vars

\* C12: when the extractor yields no record for a relevant page,
\* stats.errors goes up by one, the loop continues and nothing is persisted.
C12_ExtractionFailureCounted ==
  [][dispatching /\ last'.branch = "extract_failed"
       => /\ stats'.errors = stats.errors + 1
          /\ pc' # "aborted"
          /\ saved_content' = saved_content]_vars

\* C13: when the fetch of a dispatched URL fails, stats.errors goes up by
\* exactly one, no classifier or extractor call is made for it, the URL is
\* in the visited set and counted in pages_visited, nothing is persisted and
\* the loop goes on with what is left of the queues.
C13_FetchFailureCounted ==
  [][dispatching /\ ~dispatched'[Len(dispatched')].fetched
       => /\ stats'.errors = stats.errors + 1
          /\ stats'.pages_visited = stats.pages_visited + 1
          /\ last'.branch = "fetch_failed" /\ last'.raised = {}
          /\ last'.item \in visited_urls'
          /\ normalized_of[last'.item] \in normalized_urls'
          /\ saved_content' = saved_content
          /\ content_fingerprints' = content_fingerprints
          /\ stats'.content_found = stats.content_found
          /\ content_url_queue' = Tail(content_url_queue)
          /\ search_queue' = search_queue
          /\ pc' = "loop"]_vars

\* a fetch failed and the loop has work to go on with
C13_Witness == last.branch = "fetch_failed" /\ pc = "loop" /\ loop_condition

\* C14: when the extracted record is flagged similar,
\* similar_content_skipped goes up by one; the record is not persisted,
\* content_found, errors, domain_counts and the fingerprint list are
\* unchanged, and nothing is pushed on either queue (the candidate queue is
\* what the pop left).
C14_SimilarFrame ==
  [][dispatching /\ last'.branch = "similar"
       => /\ stats'.similar_content_skipped = stats.similar_content_skipped + 1
          /\ stats'.content_found = stats.content_found
          /\ stats'.errors = stats.errors
          /\ saved_content' = saved_content
          /\ domain_counts' = domain_counts
          /\ content_fingerprints' = content_fingerprints
          /\ search_queue' = search_queue
          /\ search_queries' = search_queries
          /\ content_url_queue' = Tail(content_url_queue)]_vars

\* a record was flagged similar
C14_Witness ==
  /\ last.branch = "similar"
  /\ stats.similar_content_skipped = 1
  /\ Len(content_fingerprints) = 1

\* is_similar_content was called with content_data on the stored fingerprints
similarity_asked(stored, content_data) ==
  /\ helper_call.fn = "is_similar_content"
  /\ content_fingerprints = stored
  /\ helper_call.content_data = content_data

\* the record whose title is that of D_COMPLETE followed by " guide"
guide_record ==
  CHOOSE content_data \in RECORDS : content_data.title = T_COMPLETE \o SP \o WORD.guide

\* C15, as stated: with the fingerprint of "Intro to AI" stored, the record
\* "A Complete Intro to AI" is flagged similar.
C15_ContainedTitleFlagged ==
  similarity_asked(<< record_fingerprint[D_INTRO] >>, D_COMPLETE) => helper_call.result

\* C15, as the code has it: with the fingerprint of "Intro to AI" (11
\* characters) stored, "A Complete Intro to AI" is not flagged; with "A
\* Complete Intro to AI" (22 characters) stored, "A Complete Intro to AI
\* guide" is.
C15_ShortTitleNotFlagged ==
  /\ similarity_asked(<< record_fingerprint[D_INTRO] >>, D_COMPLETE) => ~helper_call.result
  /\ similarity_asked(<< record_fingerprint[D_COMPLETE] >>, guide_record)
       => helper_call.result

\* is_similar_content was asked about "A Complete Intro to AI" with "Intro
\* to AI" stored
C15_Witness == similarity_asked(<< record_fingerprint[D_INTRO] >>, D_COMPLETE)

\* the tests of C16 on a stored and a new fingerprint
same_title(e, n) == e.title = n.title

title_contained(e, n) ==
  /\ Len(e.title) > 20 /\ Len(n.title) > 20
  /\ contains(n.title, e.title) \/ contains(e.title, n.title)

summaries_alike(e, n) ==
  LET words1 == word_set(e.summary_start)
      words2 == word_set(n.summary_start)
  IN /\ words1 # {} /\ words2 # {}
     /\ 10 * Cardinality(words1 \cap words2) > 7 * Cardinality(words1 \cup words2)

same_key_points(e, n) == e.key_points_hash = n.key_points_hash

\* C16, as stated: a record is a duplicate whenever, for some stored
\* fingerprint, the titles match, or one title of more than 20 characters
\* contains the other, or the summary prefixes have a Jaccard similarity
\* above 0.7 whatever their lengths, or the key-points hashes are equal.
C16_AnyTestSuffices ==
  helper_call.fn = "is_similar_content" =>
    \A i \in DOMAIN content_fingerprints :
      LET e == content_fingerprints[i]
          n == record_fingerprint[helper_call.content_data]
      IN same_title(e, n) \/ title_contained(e, n) \/ summaries_alike(e, n)
           \/ same_key_points(e, n)
         => helper_call.result

\* C16, as the code has it: a record is a duplicate exactly when, for some
\* stored fingerprint, the titles are not empty and match, or one title of
\* more than 20 characters contains the other, or the summary prefixes are
\* both longer than 50 characters and have a Jaccard similarity above 0.7,
\* or the key-points hashes are equal.
C16_GuardedTests ==
  helper_call.fn = "is_similar_content" =>
    ( helper_call.result <=>
        \E i \in DOMAIN content_fingerprints :
          LET e == content_fingerprints[i]
              n == record_fingerprint[helper_call.content_data]
          IN \/ e.title # << >> /\ same_title(e, n)
             \/ title_contained(e, n)
             \/ /\ Len(e.summary_start) > 50 /\ Len(n.summary_start) > 50
                /\ summaries_alike(e, n)
             \/ same_key_points(e, n) )

\* a record whose summary has the words of a stored one was not flagged
C16_Witness ==
  /\ helper_call.fn = "is_similar_content"
  /\ ~helper_call.result
  /\ \E i \in DOMAIN content_fingerprints :
       /\ content_fingerprints[i].summary_start # << >>
       /\ summaries_alike(content_fingerprints[i],
                          record_fingerprint[helper_call.content_data])

\* the call is normalize_url on the result of the call before
renormalized == helper_call.fn = "normalize_url" /\ helper_call.after = "result"

\* C17: normalize_url is idempotent: for every URL u (without a scheme,
\* with a trailing slash, with tracking parameters, with parameters lacking
\* "=", with repeated keys), normalize_url(normalize_url(u)) = normalize_url(u).
C17_Idempotent == renormalized => helper_call.result = helper_call.url

\* the call is normalize_url on a URL that differs in the part named from
\* the URL of the call before
varied(part) == helper_call.fn = "normalize_url" /\ helper_call.after = part

has_equals(param) == find(param, "=") # 0

param_name(param) == split1(param, "=")[1]

\* a tracking parameter as the claim names them: utm_*, ref, source,
\* fbclid, gclid
UTM == << "u", "t", "m", "_" >>

named_tracking(param) ==
  \/ is_prefix(UTM, param_name(param))
  \/ param_name(param) \in tracking_params

\* a parameter normalize_url drops as a tracking parameter: "name=value"
\* with one of the seven names of its list, in any letter case
listed_tracking(param) ==
  has_equals(param) /\ lower(param_name(param)) \in tracking_params

\* params2 holds the parameters of params1 in another order
reordered(params1, params2) ==
  /\ Len(params1) = Len(params2)
  /\ \E f \in [DOMAIN params1 -> DOMAIN params1] :
       /\ \A i, j \in DOMAIN params1 : i # j => f[i] # f[j]
       /\ params2 = [i \in DOMAIN params1 |-> params1[f[i]]]

distinct_names(params) ==
  \A i, j \in DOMAIN params : i # j => param_name(params[i]) # param_name(params[j])

untracked(params) == SelectSeq(params, LAMBDA param : ~ named_tracking(param))

unlisted(params) == SelectSeq(params, LAMBDA param : ~ listed_tracking(param))

\* the last segment of the path holds a ";"
params_in_path(path) == find(from(path, rfind_slash(path) + 1), ";") # 0

\* the two URLs differ only in letter case of host or path, in a trailing
\* slash, in the order of the parameters or in tracking parameters
varied_as_claimed ==
  \/ varied("host") /\ lower(helper_call.parts.host) = lower(helper_call.before.parts.host)
  \/ varied("path") /\ lower(helper_call.parts.path) = lower(helper_call.before.parts.path)
  \/ varied("slash")
  \/ varied("params")
       /\ \/ reordered(helper_call.before.parts.params, helper_call.parts.params)
          \/ untracked(helper_call.before.parts.params) = untracked(helper_call.parts.params)

\* C18 as stated: two URLs that differ only in host or path letter case, in
\* a trailing slash, in the order of their query parameters, or in the
\* presence or value of tracking parameters (utm_*, ref, source, fbclid,
\* gclid) normalize to the same string.
C18_VariantsNormalizeAlike ==
  varied_as_claimed => helper_call.result = helper_call.before.result

\* as varied_as_claimed, with the trailing slash after a path without
\* ";params", the order of parameters of pairwise distinct names, and the
\* tracking parameters those normalize_url lists
varied_as_normalized ==
  \/ varied("host") /\ lower(helper_call.parts.host) = lower(helper_call.before.parts.host)
  \/ varied("path") /\ lower(helper_call.parts.path) = lower(helper_call.before.parts.path)
  \/ varied("slash") /\ ~ params_in_path(helper_call.parts.path)
  \/ varied("params")
       /\ \/ /\ reordered(helper_call.before.parts.params, helper_call.parts.params)
             /\ distinct_names(helper_call.parts.params)
          \/ unlisted(helper_call.before.parts.params) = unlisted(helper_call.parts.params)

\* C18 (amended): two URLs that differ only in host or path letter case, in
\* a trailing slash after a path without ";", in the order of query
\* parameters of pairwise distinct names, or in the presence or value of a
\* parameter named utm_source, utm_medium, utm_campaign, ref, source, fbclid
\* or gclid normalize to the same string.
C18_ListedVariantsNormalizeAlike ==
  varied_as_normalized => helper_call.result = helper_call.before.result

\* http://a.com/P?b=2&a=1 was normalized after http://a.com/P?a=1&b=2
C18_Witness ==
  /\ varied("params")
  /\ helper_call.before.parts.params = << << "a", "=", "1" >>, << "b", "=", "2" >> >>
  /\ helper_call.parts.params = << << "b", "=", "2" >>, << "a", "=", "1" >> >>
  /\ helper_call.parts.prefix = HTTP
  /\ helper_call.parts.path = << "/", "P" >>
  /\ helper_call.result = helper_call.before.result

\* url is among the URLs dispatched so far
was_dispatched(url, history) == \E i \in DOMAIN history : history[i].url = url

\* the URL processed now and the one processed right before it are two
\* URLs with one normalized form
twin_processed ==
  /\ Candidate
  /\ last.branch \notin { "none", "search" }
  /\ last.item # next_url
  /\ normalized_of[last.item] = normalized_of[next_url]

twin_dispatched ==
  /\ Candidate
  /\ \E i \in DOMAIN dispatched :
       normalized_of[dispatched[i].url] = normalized_of[next_url]

host_at_quota ==
  /\ max_per_domain = 1
  /\ Candidate
  /\ ~is_duplicate(next_url)
  /\ count_of(domain_counts, domain_table[next_url]) = 1

\* a page is accepted
accepting == saved_content' # saved_content

\* C20: with max_per_domain = 1, the first accepted page of a host brings
\* the host's count to 1, and a second, distinct page of that host is
\* rejected by the quota check when it is processed: domain_quota_exceeded
\* increments by one, the page is neither dispatched nor persisted and the
\* host's count stays 1, whatever the classifier would answer.
C20_SecondPageOverQuota ==
  [][/\ max_per_domain = 1 /\ accepting =>
          /\ count_of(domain_counts, domain_table[next_url]) = 0
          /\ count_of(domain_counts', domain_table[next_url]) = 1
     /\ host_at_quota =>
          /\ stats' = Inc(stats, "domain_quota_exceeded")
          /\ last'.branch = "quota"
          /\ last'.item = next_url
          /\ dispatched' = dispatched
          /\ saved_content' = saved_content
          /\ content_fingerprints' = content_fingerprints
          /\ domain_counts' = domain_counts]_vars

\* a second page of the host of the one accepted page was rejected by the
\* quota check
C20_Witness ==
  /\ max_per_domain = 1
  /\ last.branch = "quota"
  /\ Len(saved_content) = 1
  /\ saved_content[1].url # last.item
  /\ domain_table[saved_content[1].url] = domain_table[last.item]
  /\ normalized_of[saved_content[1].url] # normalized_of[last.item]
  /\ domain_counts[domain_table[last.item]] = 1
  /\ stats.domain_quota_exceeded = 1

\* the place i of the candidate queue holds a URL pushed by this step
pushed_at(i) == ~in_list(content_url_queue'[i], content_url_queue)

\* C21: pushing a candidate URL is a no-op whenever its normalized form is
\* already in the visited set or is the normalized form of a URL already in
\* the candidate queue, for the URLs a search returns and for the links
\* suggested from a page alike: no step pushes such a URL.
C21_PushNormalized ==
  [][\A i \in DOMAIN content_url_queue' :
       pushed_at(i) =>
         /\ normalized_of[content_url_queue'[i]] \notin normalized_urls'
         /\ \A j \in 1..(i - 1) :
              normalized_of[content_url_queue'[j]] # normalized_of[content_url_queue'[i]]]_vars

\* the query was pushed earlier in the run: it is in the history list of
\* the seeds and templates, pending, or popped and searched
pushed_before(query) ==
  \/ in_list(query, search_queries)
  \/ in_list(query, search_queue)
  \/ in_list(query, searched)

\* C22: pushing a related search term suggested after an accept is a no-op
\* whenever that exact text was pushed earlier in the run, whether it is
\* still pending or was already popped and searched: no step appends such
\* a term to the queue of search queries.
C22_TermPushedOnce ==
  [][\A i \in DOMAIN search_queue' :
       /\ last'.branch = "accepted"
       /\ search_queue'[i] \in TERMS[user_query]
       /\ pushed_before(search_queue'[i])
       => in_list(search_queue'[i], search_queue)]_vars

\* C23: during expansion every injected template query is skipped if it is
\* textually identical to a query already issued in the run (a seed, an
\* earlier template or a suggested term that was pushed): the queries an
\* expansion pushes are in neither the history list nor the searched ones.
C23_TemplateSkippedIfIssued ==
  [][last'.expansion =>
       \A i \in DOMAIN search_queue' :
         /\ ~in_list(search_queue'[i], search_queries)
         /\ ~in_list(search_queue'[i], searched')]_vars

\* the templates of a batch that are not in the history list
not_issued(batch) == SelectSeq(batch, LAMBDA query : ~in_list(query, search_queries))

\* the batch an expansion injects, given content_found at that moment
batch_for(content_found) ==
  IF content_found > 0 THEN DEEPEN[user_query] ELSE BROADEN[user_query]

\* the loop stands at its test after an expansion that added no query
expanded_in_vain ==
  /\ pc = "loop"
  /\ last.expansion
  /\ search_queue = << >>
  /\ content_url_queue = << >>

\* C24: the expansion step injects the "deepen" templates exactly when
\* content_found > 0 at that moment and the "broaden" templates exactly when
\* content_found = 0; if the expansion adds no query (both queues still
\* empty) the crawl goes to Done without processing a further work item.
C24_ExpansionBatch ==
  [][/\ last'.expansion =>
          /\ search_queue' = not_issued(batch_for(stats'.content_found))
          /\ search_queries' = search_queries \o search_queue'
     /\ expanded_in_vain =>
          /\ pc' = "done"
          /\ stats' = stats
          /\ searched' = searched
          /\ dispatched' = dispatched]_vars

\* after a "broaden" expansion at content_found = 0, the four "deepen"
\* templates were injected at content_found = 1
C24_Witness ==
  /\ last.expansion
  /\ stats.content_found = 1
  /\ search_queue = DEEPEN[user_query]
  /\ \A i \in DOMAIN BROADEN[user_query] : in_list(BROADEN[user_query][i], searched)

\* the texts of the queries of a queue
texts_of(queue) == [i \in DOMAIN queue |-> QUERY_TEXT[queue[i]]]

\* no work item was popped yet
nothing_popped ==
  /\ searched = << >>
  /\ stats.pages_visited + stats.duplicates_skipped + stats.domain_quota_exceeded = 0

\* C25: after seeding and before the first work item is popped, the query
\* queue holds exactly five queries in this order: the topic,
\* "latest {topic} {year}", "{topic} recent developments",
\* "{topic} recent research", "{topic} updated {year}"; the candidate queue
\* is empty and every counter of stats is 0.
C25_Seeded ==
  nothing_popped /\ pc = "loop" =>
    /\ texts_of(search_queue) =
         << user_query,
            << "l", "a", "t", "e", "s", "t", " " >> \o user_query \o << " " >> \o CURRENT_YEAR,
            user_query \o << " ", "r", "e", "c", "e", "n", "t", " ",
                             "d", "e", "v", "e", "l", "o", "p", "m", "e", "n", "t", "s" >>,
            user_query \o << " ", "r", "e", "c", "e", "n", "t", " ",
                             "r", "e", "s", "e", "a", "r", "c", "h" >>,
            user_query \o << " ", "u", "p", "d", "a", "t", "e", "d", " " >> \o CURRENT_YEAR >>
    /\ content_url_queue = << >>
    /\ \A counter \in DOMAIN stats : stats[counter] = 0

\* the run was seeded and no work item was popped
C25_Witness ==
  /\ nothing_popped
  /\ pc = "loop"
  /\ Len(search_queue) = 5
  /\ search_queries = search_queue

\* the place of a call among the calls of an iteration (0: not made)
place_of(call, calls_made) ==
  IF in_list(call, calls_made)
  THEN CHOOSE i \in DOMAIN calls_made : calls_made[i] = call
  ELSE 0

\* the calls made after the first call and before the second
calls_between(first, second, calls_made) ==
  { calls_made[i] : i \in (place_of(first, calls_made) + 1)..(place_of(second, calls_made) - 1) }

page_steps ==
  { "fetch_url", "is_relevant_content", "extract_content_data", "is_similar_content" }

\* the calls of an accepting iteration after the quota check and before the
\* increment of the domain counter
before_admission ==
  calls_between("check_domain_quota", "domain_counts", calls_of("accepted"))

unknown_date(x) ==
  lower(x.date_published)
    \in { << "u", "n", "k", "n", "o", "w", "n" >>,
          << "u", "n", "k", "n", "o", "w", "n", " ", "d", "a", "t", "e" >>, << >> }

\* the run ended and its summaries were sorted
reported == pc = "done" /\ helper_call.fn = "sorted"

\* C27: at Done, the list of persisted content summaries is ordered by
\* descending relevance score, and among items with the same relevance
\* score every item with an unknown date ("unknown", "unknown date" or
\* empty, in any letter case) comes after every item carrying a recognized
\* date; the list holds the summaries persisted, each as often.
C27_SortedReport ==
  reported =>
    /\ \A i, j \in DOMAIN helper_call.result :
         i < j =>
           /\ helper_call.result[i].relevance_score >= helper_call.result[j].relevance_score
           /\ helper_call.result[i].relevance_score = helper_call.result[j].relevance_score
                /\ unknown_date(helper_call.result[i])
                => unknown_date(helper_call.result[j])
    /\ Len(helper_call.result) = Len(saved_content)
    /\ \A x \in SUMMARIES :
         Cardinality({ i \in DOMAIN saved_content : saved_content[i] = x })
           = Cardinality({ i \in DOMAIN helper_call.result : helper_call.result[i] = x })

\* three summaries persisted in the order (5, no date), (9, no date),
\* (5, dated) were reported in the order (9, no date), (5, dated),
\* (5, no date)
C27_Witness ==
  /\ reported
  /\ Len(saved_content) = 3
  /\ saved_content[1].relevance_score = 5 /\ unknown_date(saved_content[1])
  /\ saved_content[2].relevance_score = 9
  /\ saved_content[3].relevance_score = 5 /\ ~unknown_date(saved_content[3])
  /\ helper_call.result = << saved_content[2], saved_content[3], saved_content[1] >>

\* the hosts counted before or after a step
counted_hosts == DOMAIN domain_counts \cup DOMAIN domain_counts'

\* C28: domain_counts[d] changes only by +1, in an iteration in which a
\* record from host d was persisted, and never decreases; when persisting
\* fails (no storage location returned), content_found, domain_counts, the
\* fingerprint list and the saved-content list are all unchanged.
C28_CountedWhenPersisted ==
  [][/\ \A d \in counted_hosts :
          \/ count_of(domain_counts', d) = count_of(domain_counts, d)
          \/ /\ count_of(domain_counts', d) = count_of(domain_counts, d) + 1
             /\ last'.branch = "accepted"
             /\ Len(saved_content') = Len(saved_content) + 1
             /\ domain_table[saved_content'[Len(saved_content')].url] = d
     /\ dispatching /\ last'.branch = "save_failed" =>
          /\ stats'.content_found = stats.content_found
          /\ domain_counts' = domain_counts
          /\ content_fingerprints' = content_fingerprints
          /\ saved_content' = saved_content]_vars

\* after a record of another host was persisted, persisting failed for a
\* page and its host is not counted
C28_Witness ==
  /\ last.branch = "save_failed"
  /\ count_of(domain_counts, domain_table[last.item]) = 0
  /\ stats.content_found = 1
  /\ Len(saved_content) = 1

\* the attempts of the latest call that ended the way named
latest_attempts(kinds) ==
  Cardinality({ i \in (latest_call + 1)..Len(events) : events[i].kind \in kinds })

failed_attempts == latest_attempts({ "backoff", "retry" })

\* C29: api_call_with_backoff invokes the wrapped operation at most 5 times
\* per call; if every attempt fails it raises to its caller (it returns no
\* value, and not None, for such a call), and if an attempt succeeds it
\* returns that attempt's result at once and sets the backoff to the
\* floor 5.
C29_FiveAttempts ==
  events # << >> =>
    /\ failed_attempts + latest_attempts({ "success" }) <= 5
    /\ api_pc = "trying" => failed_attempts < 5 /\ latest_attempts({ "success" }) = 0
    /\ api_pc = "raised" => failed_attempts = 5 /\ latest_attempts({ "success" }) = 0
    /\ failed_attempts = 5 => api_pc \in { "raised", "idle" }
    /\ api_pc = "returned" =>
         /\ events[Len(events)].kind = "success"
         /\ latest_attempts({ "success" }) = 1
         /\ backoff_time = 5

\* a call returned from its fifth attempt, after a rate-limit failure had
\* raised the backoff
C29_Witness ==
  /\ api_pc = "returned"
  /\ failed_attempts = 4
  /\ latest_attempts({ "backoff" }) > 0


\* the interval the pacing keeps between two requests of a class
interval_of(class) ==
  IF class = "generative" THEN min_api_interval ELSE min_search_api_interval

\* every request began at least its class's interval after every earlier
\* request of its class
paced ==
  \A i \in DOMAIN requests : \A j \in DOMAIN requests :
    (i < j /\ requests[i].class = requests[j].class)
      => requests[j].at >= requests[i].at + interval_of(requests[i].class)

\* the classes of the requests a step sends
sent_classes ==
  { requests'[i].class : i \in (DOMAIN requests') \ (DOMAIN requests) }

\* C30: on a clock of whole seconds, every request to the model begins at
\* least min_api_interval after the previous request to the model began,
\* every search request begins at least min_search_api_interval after the
\* previous search request, and a step that sends requests of one class
\* leaves the other class's timestamp as it was.
C30_Paced ==
  [][ /\ paced'
      /\ "generative" \in sent_classes => last_search_api_call' = last_search_api_call
      /\ "search" \in sent_classes => last_api_call' = last_api_call ]_vars

\* a call of the model that slept for its whole interval, a search request
\* having been sent since the previous call of the model, and two search
\* requests one second apart
C30_Witness ==
  /\ \E i \in DOMAIN requests : \E j \in DOMAIN requests : \E k \in DOMAIN requests :
       /\ i < j /\ j < k
       /\ requests[i].class = "generative"
       /\ requests[j].class = "search"
       /\ requests[k].class = "generative"
       /\ requests[k].at = requests[i].at + min_api_interval
  /\ \E i \in DOMAIN requests : \E j \in DOMAIN requests :
       /\ requests[i].class = "search"
       /\ requests[j].class = "search"
       /\ requests[j].at = requests[i].at + min_search_api_interval
  /\ last_api_call # last_search_api_call

\* an attempt of the call under way failed at this step
attempt_failed == api_pc = "trying" /\ retries' = retries + 1

\* the sleep the latest step recorded
latest_event == events'[Len(events')]

\* C31: in api_call_with_backoff a failure that is no rate-limit error
\* sleeps 5 seconds, leaves self.backoff_time and the local backoff as they
\* were, and the call tries again while retries are left; a failure that
\* changes either back-off value is a rate-limit failure.
C31_OtherErrorKeepsBackoff ==
  [][ attempt_failed =>
        /\ latest_event.kind = "retry" =>
             /\ latest_event.seconds = 5
             /\ clock' = clock + 5
             /\ backoff_time' = backoff_time
             /\ backoff' = backoff
             /\ retries' < max_retries => api_pc' = "trying"
        /\ (backoff_time' # backoff_time \/ backoff' # backoff) =>
             latest_event.kind = "backoff" ]_vars

\* another error after a rate-limit error: the raised back-off is kept and
\* the call is about to try again
C31_Witness ==
  /\ api_pc = "trying"
  /\ retries = 2
  /\ events # << >>
  /\ events[Len(events)] = event("retry", 5)
  /\ Len(events) > 1
  /\ events[Len(events) - 1].kind = "backoff"
  /\ backoff_time = 10
  /\ backoff = 10

\* C32: related search terms and additional candidate links of a page are
\* requested and pushed only in an iteration in which the page's record was
\* persisted; a dispatch that persists nothing only takes the page off the
\* candidate queue and, the expansion aside, leaves the query queue as it
\* was.
C32_PushedOnlyWhenPersisted ==
  [][ dispatching /\ last'.branch # "accepted" =>
        /\ content_url_queue' = Tail(content_url_queue)
        /\ ~last'.expansion => search_queue' = search_queue ]_vars

\* the counters a popped candidate is counted in
POP_COUNTERS == {"duplicates_skipped", "domain_quota_exceeded", "pages_visited"}

\* the step counted the candidate it popped in exactly this counter
counted_in(counter) ==
  /\ stats'[counter] = stats[counter] + 1
  /\ \A other \in POP_COUNTERS \ {counter} : stats'[other] = stats[other]

\* C33: a step that pops a candidate URL adds one to exactly one of
\* duplicates_skipped, domain_quota_exceeded and pages_visited, and no other
\* step changes any of the three, so the candidates popped are as many as
\* the three counters together; pages_visited is the size of the run's set
\* of visited normalized URLs.
C33_PoppedCountedOnce ==
  /\ [](stats.pages_visited = Cardinality(normalized_urls))
  /\ [][ IF Candidate
         THEN /\ content_url_queue' # content_url_queue
              /\ \E counter \in POP_COUNTERS : counted_in(counter)
         ELSE \A counter \in POP_COUNTERS : stats'[counter] = stats[counter] ]_vars

\* each of the three counters has counted a popped candidate
C33_Witness ==
  /\ stats.duplicates_skipped = 1
  /\ stats.domain_quota_exceeded = 1
  /\ stats.pages_visited = 1
  /\ Cardinality(normalized_urls) = 1
  /\ last.branch \in {"duplicate", "quota"}

\* the sum of the counts of the hosts given
RECURSIVE sum_of_counts(_, _)
sum_of_counts(counts, hosts) ==
  IF hosts = {} THEN 0
  ELSE LET d == CHOOSE h \in hosts : TRUE
       IN counts[d] + sum_of_counts(counts, hosts \ {d})

\* C34: in every reachable state of a run on a fresh crawler,
\* content_found <= pages_visited, the counts of domain_counts add up to
\* content_found, and the saved-content list has content_found entries
\* whose URLs are pairwise distinct.
C34_PersistedOnce ==
  /\ stats.content_found <= stats.pages_visited
  /\ sum_of_counts(domain_counts, DOMAIN domain_counts) = stats.content_found
  /\ Len(saved_content) = stats.content_found
  /\ \A i \in DOMAIN saved_content : \A j \in DOMAIN saved_content :
       i # j => saved_content[i].url # saved_content[j].url

\* two records of two hosts were persisted
C34_Witness ==
  /\ stats.content_found = 2
  /\ Len(saved_content) = 2
  /\ Cardinality(DOMAIN domain_counts) = 2
  /\ saved_content[1].url # saved_content[2].url

\* the step processed a search query
searching == stats'.search_queries_used = stats.search_queries_used + 1

\* C35: a dispatched page adds at most one to stats.errors and nothing but
\* a dispatch adds to it, so errors <= pages_visited in every reachable
\* state; a step that processes a search query, whatever the search
\* returns, leaves errors as it was.
C35_OneErrorPerPage ==
  /\ [](stats.errors <= stats.pages_visited)
  /\ [][ /\ stats'.errors \in {stats.errors, stats.errors + 1}
         /\ stats'.errors # stats.errors => dispatching
         /\ searching => stats'.errors = stats.errors ]_vars

\* after a page whose fetch failed was counted as an error, a search
\* returned nothing
C35_Witness ==
  /\ last.branch = "search"
  /\ content_url_queue = << >>
  /\ stats.search_queries_used = 2
  /\ stats.errors = 1
  /\ stats.pages_visited = 1

\* the place in events where the call that event i belongs to began
call_of(i) ==
  CHOOSE c \in 1..i :
    /\ events[c].kind = "call"
    /\ \A j \in (c + 1)..i : events[j].kind # "call"

\* the rate-limit sleeps recorded between the places c and i
sleeps_between(c, i) == { j \in (c + 1)..(i - 1) : events[j].kind = "backoff" }

\* the latest place of a non-empty set of places
latest_of(places) == CHOOSE j \in places : \A k \in places : k <= j

\* what the call ending right before place c left in self.backoff_time:
\* the floor after a success, otherwise twice its last rate-limit sleep,
\* capped, or the value it began with when it had none
left_by_call_before(c) ==
  IF events[c - 1].kind = "success" THEN 5
  ELSE IF sleeps_between(call_of(c - 1), c) = {}
       THEN events[call_of(c - 1)].seconds
       ELSE min(2 * events[latest_of(sleeps_between(call_of(c - 1), c))].seconds,
                max_backoff)

\* C36: after any sequence of calls with any mix of successes, rate-limit
\* failures and other failures, 5 <= self.backoff_time <= max_backoff, and
\* the value carries over: a call begins with what the call before it left,
\* raised by that call's rate-limit failures unless it succeeded, and the
\* first rate-limit sleep of a call is the value the call began with.
C36_BackoffCarriesOver ==
  /\ 5 <= backoff_time
  /\ backoff_time <= max_backoff
  /\ \A i \in DOMAIN events :
       /\ (events[i].kind = "call" /\ i > 1) =>
            events[i].seconds = left_by_call_before(i)
       /\ (events[i].kind = "backoff" /\ sleeps_between(call_of(i), i) = {}) =>
            events[i].seconds = events[call_of(i)].seconds

\* a call that began with the ceiling left by a call that gave up, and
\* slept that long at its first rate-limit failure
C36_Witness ==
  \E i \in DOMAIN events :
    /\ i > 1
    /\ events[i] = event("call", max_backoff)
    /\ events[i - 1].kind = "backoff"
    /\ i < Len(events)
    /\ events[i + 1] = event("backoff", max_backoff)

\* a stored fingerprint is that of a record with the key points of
\* content_data
key_points_stored(content_data) ==
  \E i \in DOMAIN content_fingerprints : \E stored \in RECORDS :
    /\ record_fingerprint[stored] = content_fingerprints[i]
    /\ lower(stored.key_points) = lower(content_data.key_points)

\* C37: the key-points test of is_similar_content has no emptiness guard: a
\* record is flagged similar whenever its key points are those of the
\* record of a stored fingerprint, also when neither record has any key
\* point; so once the fingerprint of a record without key points is stored,
\* every record without key points is flagged.
C37_KeyPointsUnguarded ==
  helper_call.fn = "is_similar_content" =>
    /\ key_points_stored(helper_call.content_data) => helper_call.result
    /\ ( /\ helper_call.content_data.key_points = D_RAW_TEXT.key_points
         /\ \E i \in DOMAIN content_fingerprints :
              content_fingerprints[i] = record_fingerprint[D_RAW_TEXT] )
       => helper_call.result

\* with only the fingerprint of the unparsed response's record stored, a
\* record with another title and a summary, and no key points, was flagged
C37_Witness ==
  /\ similarity_asked(<< record_fingerprint[D_RAW_TEXT] >>, D_NO_KEY_POINTS)
  /\ helper_call.result
  /\ D_NO_KEY_POINTS.title # D_RAW_TEXT.title
  /\ D_NO_KEY_POINTS.summary # D_RAW_TEXT.summary

\* the step counted a candidate as rejected by the domain quota
quota_counted == stats'.domain_quota_exceeded = stats.domain_quota_exceeded + 1

\* C38: a candidate rejected by the domain quota is not fetched, not
\* classified, not counted in pages_visited and not added to the visited
\* sets; a URL rejected before that is popped again is rejected and counted
\* in domain_quota_exceeded again, and not as a duplicate.
C38_QuotaRejectLeavesNoMark ==
  [][ /\ quota_counted =>
           /\ last'.branch = "quota"
           /\ ~in_list("fetch_url", calls_of(last'.branch))
           /\ ~in_list("is_relevant_content", calls_of(last'.branch))
           /\ ~dispatching
           /\ stats'.pages_visited = stats.pages_visited
           /\ normalized_urls' = normalized_urls
           /\ visited_urls' = visited_urls
      /\ (Candidate /\ next_url \in quota_rejected) =>
           /\ quota_counted
           /\ stats'.duplicates_skipped = stats.duplicates_skipped ]_vars

\* one URL was rejected by the quota twice, and is in no visited set
C38_Witness ==
  /\ last.branch = "quota"
  /\ quota_rejected = { last.item }
  /\ stats.domain_quota_exceeded = 2
  /\ stats.duplicates_skipped = 0
  /\ last.item \notin visited_urls
  /\ normalized_of[last.item] \notin normalized_urls
  /\ max_per_domain = 1

\* C39: the candidate queue never holds the same URL string twice: in every
\* reachable state its entries are pairwise distinct, whatever the searches
\* return and the pages suggest, lists that repeat a URL included.
C39_QueueDistinct ==
  \A i \in DOMAIN content_url_queue : \A j \in DOMAIN content_url_queue :
    i # j => URL_TEXT[content_url_queue[i]] # URL_TEXT[content_url_queue[j]]

\* the two links of the first page dispatched are queued, each once
C39_Witness ==
  /\ last.branch \in {"accepted", "save_failed"}
  /\ Len(content_url_queue) = 2
  /\ content_url_queue[1] # content_url_queue[2]
  /\ stats.pages_visited = 1

=============================================================================
